---- MODULE Spec2Model ----
(***************************************************************************)
(* Rating store, rating validation and the derived participant / event     *)
(* statistics of the stats app (backend/stats/models.py), over a small     *)
(* fixed roster of events, sessions and event participants.                *)
(***************************************************************************)
EXTENDS Integers, Sequences, FiniteSets, Bags, TLC

VARIABLES
    ratings,      \* the EventRating table: a bag of rows (the pk carries no data)
    pstats,       \* the EventParticipantStatistics table: <<event, participant>> -> row
    estats,       \* the EventStatistics table: event -> row
    last,         \* outcome of the last operation (return value / raised error)
    evaluations,  \* the Evaluation table: a set of rows
    jweights,     \* the JudgeWeight table: <<event, judge>> -> weight (hundredths)
    cache,        \* the in-process cache (django.core.cache): key -> value
    cached_stats, \* the CachedStatistic table: <<event, statistic_type>> -> row
    snapshots,    \* the StatisticSnapshot table: the rows in creation order
    creates,      \* per process, the write of a rating it is carrying out and its step
    threads,      \* the evaluations whose background thread is started and has not run
    share_links,  \* the FileShareLink table: token -> row
    downloads,    \* per process, the shared-file download it is carrying out
    clock         \* timezone.now() as the share links are checked against it

vars == <<ratings, pstats, estats, last, evaluations, jweights, cache, cached_stats, snapshots,
          creates, threads, share_links, downloads, clock>>

\* The rows and the requests in progress of the files app.
filesVars == <<share_links, downloads, clock>>

\* The tables and the cache of the judged-work track.
judgedVars == <<evaluations, jweights, cache, cached_stats, snapshots>>

\* Largest number of EventRating rows the model lets the table hold.
MaxRatings == 3

\* Largest number of Evaluation rows the model lets the table hold.
MaxEvaluations == 3

\* Largest number of StatisticSnapshot rows the model lets the table hold.
MaxSnapshots == 2

\* The largest download_count a share link reaches.
MaxDownloads == 3

(***************************************************************************)
(* Nullable values: None is Python's None / SQL NULL, Some(x) a value.     *)
(***************************************************************************)
None == <<>>
Some(x) == <<x>>
Val(o) == o[1]

(***************************************************************************)
(* The roster the ratings refer to (rows of the events app).               *)
(***************************************************************************)
Events == {1, 2}

Users == 1 .. 6

\* EventParticipant rows: unique per (event, user); user 3 is a confirmed
\* referee of event 1 and a participant of event 2, user 4 an unconfirmed
\* referee of event 1, user 5 the owner of event 1, user 6 a member of nothing.
EventParticipants ==
    { [id |-> 1, event |-> 1, user |-> 1, role |-> "participant", is_confirmed |-> TRUE],
      [id |-> 2, event |-> 1, user |-> 2, role |-> "participant", is_confirmed |-> TRUE],
      [id |-> 3, event |-> 1, user |-> 3, role |-> "referee",     is_confirmed |-> TRUE],
      [id |-> 4, event |-> 1, user |-> 4, role |-> "referee",     is_confirmed |-> FALSE],
      [id |-> 5, event |-> 2, user |-> 3, role |-> "participant", is_confirmed |-> TRUE],
      [id |-> 6, event |-> 1, user |-> 5, role |-> "owner",       is_confirmed |-> TRUE] }

\* OnlineEventInfo rows and OfflineSessionsInfo rows (separate tables, so the
\* ids of the two overlap).
OnlineSessions == { [id |-> 1, event |-> 1], [id |-> 2, event |-> 1], [id |-> 3, event |-> 2] }

OfflineSessions == { [id |-> 1, event |-> 1] }

Participant(pid) == CHOOSE p \in EventParticipants : p.id = pid

OnlineSession(sid) == CHOOSE s \in OnlineSessions : s.id = sid

OfflineSession(sid) == CHOOSE s \in OfflineSessions : s.id = sid

GradingSystems == {"five_point", "pass_fail"}

\* The processes (request workers) that create ratings at the same time.
Processes == {1, 2}

(***************************************************************************)
(* Helpers on bags of rows (querysets).                                    *)
(***************************************************************************)
\* QuerySet.filter: the rows of B that are in the set S, with their multiplicity.
FilterBag(B, S) == [r \in S \cap BagToSet(B) |-> B[r]]

RECURSIVE SumOver(_, _)
\* sum(scores) over the rows in the set S, each counted B[r] times.
SumOver(B, S) ==
    IF S = {} THEN 0
    ELSE LET r == CHOOSE x \in S : TRUE
         IN  r.score * B[r] + SumOver(B, S \ {r})

SumScores(B) == SumOver(B, BagToSet(B))

RECURSIVE SortedSeq(_)
\* sorted(list) of a set of integers, ascending.
SortedSeq(S) ==
    IF S = {} THEN <<>>
    ELSE LET m == CHOOSE x \in S : \A y \in S : x <= y
         IN  <<m>> \o SortedSeq(S \ {m})

\* The modal values of a count dict (score -> count), as ', '.join(map(str,
\* sorted(...))) lists them: ascending, every value with the largest count.
ModalGrades(counts) ==
    LET max_count == CHOOSE c \in {counts[g] : g \in DOMAIN counts} :
                         \A g \in DOMAIN counts : counts[g] <= c
    IN  SortedSeq({g \in DOMAIN counts : counts[g] = max_count})

\* math.ceil(s / n) for integers s >= 0, n > 0. The float quotient of two
\* small integers is exact when n divides s and lies strictly between two
\* integers otherwise, so the ceiling is that of the exact quotient.
PyCeilDiv(s, n) == IF s % n = 0 THEN s \div n ELSE (s \div n) + 1

\* The integer nearest to num * scale / den, ties to the even neighbour
\* (decimal's default rounding and Python's round()).
RoundHalfEven(num, den, scale) ==
    LET q == (num * scale) \div den
        rem == (num * scale) % den
    IN  IF 2 * rem > den THEN q + 1
        ELSE IF 2 * rem < den THEN q
        ELSE IF q % 2 = 0 THEN q ELSE q + 1

\* A float assigned to DecimalField(max_digits, decimal_places = 2) for a mean
\* in [0, 10): to_python rounds it to max_digits significant digits, the save
\* then quantizes to two places. The result is in hundredths.
DecimalFieldValue(s, n, max_digits) ==
    IF max_digits = 4
    THEN RoundHalfEven(RoundHalfEven(s, n, 1000), 10, 1)
    ELSE RoundHalfEven(s, n, 100)

\* The scope key of a rating: "online_<id>", "offline_<id>" or "event".
ScopeKey(r) ==
    IF r.online_session # None THEN <<"online", Val(r.online_session)>>
    ELSE IF r.offline_session # None THEN <<"offline", Val(r.offline_session)>>
    ELSE <<"event", 0>>

(***************************************************************************)
(* EventParticipantStatistics.calculate_for_participant                    *)
(***************************************************************************)
\* A row as get_or_create creates it (the field defaults).
ParticipantStatisticsDefaults ==
    [ final_score |-> None, average_score |-> None,
      session_scores_count |-> [k \in {} |-> 0], most_popular_grades |-> None ]

ParticipantRow(PS, key) ==
    IF key \in DOMAIN PS THEN PS[key] ELSE ParticipantStatisticsDefaults

\* Faulty variant of FivePoint: the grading system is not looked at, so
\* pass_fail scores enter the mean.
FivePointAll(rs) == rs

\* The five_point ratings of a queryset.
FivePoint(rs) == FilterBag(rs, {r \in BagToSet(rs) : r.grading_system = "five_point"})

\* Faulty variant of FinalScore: round(avg_score), to the nearest integer.
FinalScoreNearest(five) ==
    RoundHalfEven(SumScores(five), BagCardinality(five), 1)

\* final_score = math.ceil(avg_score) of the five_point scores.
FinalScore(five) ==
    PyCeilDiv(SumScores(five), BagCardinality(five))

\* {session key: number of ratings} over all the participant's ratings.
SessionScoresCount(rs) ==
    [ k \in {ScopeKey(r) : r \in BagToSet(rs)} |->
        BagCardinality(FilterBag(rs, {r \in BagToSet(rs) : ScopeKey(r) = k})) ]

\* {score: count} of a bag of ratings.
ScoreCounts(rs) ==
    [ s \in {r.score : r \in BagToSet(rs)} |->
        BagCardinality(FilterBag(rs, {r \in BagToSet(rs) : r.score = s})) ]

\* The row calculate_for_participant computes and saves for (event,
\* participant) from the ratings R, given the stored rows PS.
ParticipantStatisticsRow(R, PS, event, participant) ==
    LET rs    == FilterBag(R, {r \in BagToSet(R) : r.event = event /\ r.participant = participant})
        stats == ParticipantRow(PS, <<event, participant>>)
        five  == FivePoint(rs)
    IN  IF BagCardinality(rs) = 0
        THEN [ stats EXCEPT !.final_score = None,
                            !.average_score = None,
                            !.session_scores_count = [k \in {} |-> 0] ]
        ELSE [ session_scores_count |-> SessionScoresCount(rs),
               average_score |->
                   IF BagCardinality(five) > 0
                   THEN Some(DecimalFieldValue(SumScores(five), BagCardinality(five), 4))
                   ELSE None,
               final_score |->
                   IF BagCardinality(five) > 0 THEN Some(FinalScore(five)) ELSE None,
               most_popular_grades |->
                   IF BagCardinality(five) > 0
                   THEN Some(ModalGrades(ScoreCounts(five)))
                   ELSE None ]

\* The EventParticipantStatistics table after calculate_for_participant.
calculate_for_participant(R, PS, event, participant) ==
    (<<event, participant>> :> ParticipantStatisticsRow(R, PS, event, participant)) @@ PS

(***************************************************************************)
(* EventStatistics.calculate_for_event                                     *)
(***************************************************************************)
\* The row written when the event has no ratings at all.
EventStatisticsZero ==
    [ average_score |-> None, total_participants_rated |-> 0, total_ratings_given |-> 0,
      count_grade_5_total |-> 0, count_grade_4_total |-> 0, count_grade_3_total |-> 0,
      count_grade_2_total |-> 0, count_grade_1_total |-> 0,
      count_pass_total |-> 0, count_fail_total |-> 0,
      most_popular_grade_total |-> None,
      session_grade_distribution |-> [k \in {} |-> 0],
      session_averages |-> [k \in {} |-> 0] ]

\* The participant table after the loop that recomputes every EventParticipant
\* of the event (each iteration reads and writes its own row only).
RecomputeParticipants(R, PS, event) ==
    LET members == {<<event, p.id>> : p \in {q \in EventParticipants : q.event = event}}
    IN  [ k \in DOMAIN PS \cup members |->
            IF k \in members THEN ParticipantStatisticsRow(R, PS, event, k[2]) ELSE PS[k] ]

\* The keys of the rows of the event that have a final_score.
ParticipantStats(PS, event) ==
    {k \in DOMAIN PS : k[1] = event /\ PS[k].final_score # None}

RECURSIVE SumFinal(_, _)
\* sum(final_scores) over the rows with the keys K.
SumFinal(PS, K) ==
    IF K = {} THEN 0
    ELSE LET k == CHOOSE x \in K : TRUE
         IN  Val(PS[k].final_score) + SumFinal(PS, K \ {k})

\* Faulty variant of GradeCountsTotal: the bucket of a participant is the
\* average_score rounded to the nearest integer, not the final_score.
GradeCountsTotalNearest(PS, K) ==
    [ g \in {RoundHalfEven(Val(PS[k].average_score), 100, 1) : k \in K} |->
        Cardinality({k \in K : RoundHalfEven(Val(PS[k].average_score), 100, 1) = g}) ]

\* grade_counts_total: {final score: number of participants having it}.
GradeCountsTotal(PS, K) ==
    [ g \in {Val(PS[k].final_score) : k \in K} |->
        Cardinality({k \in K : Val(PS[k].final_score) = g}) ]

\* dict.get(key, 0)
Get(d, key) == IF key \in DOMAIN d THEN d[key] ELSE 0

\* session_grade_distribution: per scope key, the {score: count} of the
\* five_point ratings and of the pass_fail ratings.
SessionGradeDistribution(rs) ==
    [ k \in {ScopeKey(r) : r \in BagToSet(rs)} |->
        [ five_point |-> ScoreCounts(FilterBag(rs, {r \in BagToSet(rs) :
                             ScopeKey(r) = k /\ r.grading_system = "five_point"})),
          pass_fail  |-> ScoreCounts(FilterBag(rs, {r \in BagToSet(rs) :
                             ScopeKey(r) = k /\ r.grading_system = "pass_fail"})) ] ]

\* session_averages: round(mean, 2) of the five_point scores per scope key
\* (in hundredths), for the keys that have any.
SessionAverages(rs) ==
    LET five(k) == FilterBag(rs, {r \in BagToSet(rs) :
                       ScopeKey(r) = k /\ r.grading_system = "five_point"})
    IN  [ k \in {ScopeKey(r) : r \in {x \in BagToSet(rs) : x.grading_system = "five_point"}} |->
            RoundHalfEven(SumScores(five(k)), BagCardinality(five(k)), 100) ]

\* Faulty variant of PassFailCount: the participants that hold a pass_fail
\* rating with the score are counted, not the ratings.
PassFailCountParticipants(rs, score) ==
    Cardinality({r.participant : r \in {x \in BagToSet(rs) :
                     x.grading_system = "pass_fail" /\ x.score = score}})

\* original_pass_fail_counts: the number of pass_fail ratings with the score
\* (1 for 'pass', 0 for 'fail').
PassFailCount(rs, score) ==
    BagCardinality(FilterBag(rs, {r \in BagToSet(rs) :
        r.grading_system = "pass_fail" /\ r.score = score}))

\* The EventStatistics row computed from the event's ratings rs (not empty)
\* and the recomputed participant table PS.
EventStatisticsRow(rs, PS, event) ==
    LET K      == ParticipantStats(PS, event)
        counts == GradeCountsTotal(PS, K)
    IN  [ average_score |->
              IF K # {} THEN Some(DecimalFieldValue(SumFinal(PS, K), Cardinality(K), 3))
              ELSE None,
          total_participants_rated |-> Cardinality(K),
          total_ratings_given |-> BagCardinality(rs),
          count_grade_5_total |-> Get(counts, 5),
          count_grade_4_total |-> Get(counts, 4),
          count_grade_3_total |-> Get(counts, 3),
          count_grade_2_total |-> Get(counts, 2),
          count_grade_1_total |-> Get(counts, 1),
          count_pass_total |-> PassFailCount(rs, 1),
          count_fail_total |-> PassFailCount(rs, 0),
          most_popular_grade_total |->
              IF K # {} THEN Some(ModalGrades(counts)) ELSE None,
          session_grade_distribution |-> SessionGradeDistribution(rs),
          session_averages |-> SessionAverages(rs) ]

\* Faulty variant of ObservedEventStatisticsRow: total_ratings_given is
\* counted again on the rows the loop iterates, not taken from the earlier
\* ratings.count().
ObservedEventStatisticsRowRecounted(total_ratings, rs, PS, event) ==
    EventStatisticsRow(rs, PS, event)

\* The EventStatistics row of a calculate_for_event whose queries ran at
\* different times: total_ratings is what ratings.count() returned, rs the
\* ratings the later queries (the loop over ratings, the pass_fail filter)
\* found, PS the participant table after the loop over the participants.
ObservedEventStatisticsRow(total_ratings, rs, PS, event) ==
    [EventStatisticsRow(rs, PS, event) EXCEPT !.total_ratings_given = total_ratings]

\* Both statistics tables after calculate_for_event(event).
calculate_for_event(R, PS, ES, event) ==
    LET rs == FilterBag(R, {r \in BagToSet(R) : r.event = event})
    IN  IF BagCardinality(rs) = 0
        THEN [ pstats |-> PS, estats |-> (event :> EventStatisticsZero) @@ ES ]
        ELSE LET PS1 == RecomputeParticipants(R, PS, event)
             IN  [ pstats |-> PS1,
                   estats |-> (event :> EventStatisticsRow(rs, PS1, event)) @@ ES ]

(***************************************************************************)
(* EventStatistics.calculate_for_session                                   *)
(***************************************************************************)
\* Faulty variant of SessionRatings: the session is matched by its id alone,
\* in both session columns.
SessionRatingsByIdOnly(R, kind, session_id) ==
    FilterBag(R, {r \in BagToSet(R) : \/ r.online_session = Some(session_id)
                                      \/ r.offline_session = Some(session_id)})

\* session.ratings.all(): the ratings whose online_session (kind "online") or
\* offline_session (kind "offline") is the session.
SessionRatings(R, kind, session_id) ==
    FilterBag(R, {r \in BagToSet(R) :
        \/ kind = "online" /\ r.online_session = Some(session_id)
        \/ kind = "offline" /\ r.offline_session = Some(session_id)})

\* a.update(b) on dicts: the entries of b replace those of a with the same key.
DictUpdate(a, b) ==
    [k \in DOMAIN a \cup DOMAIN b |-> IF k \in DOMAIN b THEN b[k] ELSE a[k]]

RECURSIVE GCD(_, _)
GCD(a, b) == IF b = 0 THEN a ELSE GCD(b, a % b)

\* aggregate(avg=Avg('score')): the mean of n > 0 scores of sum s, carried as
\* the fraction <<numerator, denominator>> in lowest terms.
AvgScore(s, n) == <<s \div GCD(s, n), n \div GCD(s, n)>>

\* The dict calculate_for_session returns for a session without ratings.
SessionStatisticsEmpty ==
    [ average_score |-> None, total_participants_rated |-> 0, total_ratings_given |-> 0,
      count_grade_5 |-> 0, count_grade_4 |-> 0, count_grade_3 |-> 0, count_grade_2 |-> 0,
      count_grade_1 |-> 0, count_pass |-> 0, count_fail |-> 0, most_popular_grade |-> None ]

\* calculate_for_session(session): the dict returned. Nothing is stored.
calculate_for_session(R, kind, session_id) ==
    LET rs        == SessionRatings(R, kind, session_id)
        five      == FilterBag(rs, {r \in BagToSet(rs) : r.grading_system = "five_point"})
        pass_fail == FilterBag(rs, {r \in BagToSet(rs) : r.grading_system = "pass_fail"})
        all_grade_counts == DictUpdate(ScoreCounts(five), ScoreCounts(pass_fail))
    IN  IF BagCardinality(rs) = 0
        THEN SessionStatisticsEmpty
        ELSE [ average_score |->
                   IF BagCardinality(five) > 0
                   THEN Some(AvgScore(SumScores(five), BagCardinality(five)))
                   ELSE None,
               total_participants_rated |-> Cardinality({r.participant : r \in BagToSet(rs)}),
               total_ratings_given |-> BagCardinality(rs),
               count_grade_5 |-> Get(ScoreCounts(five), 5),
               count_grade_4 |-> Get(ScoreCounts(five), 4),
               count_grade_3 |-> Get(ScoreCounts(five), 3),
               count_grade_2 |-> Get(ScoreCounts(five), 2),
               count_grade_1 |-> Get(ScoreCounts(five), 1),
               count_pass |-> Get(ScoreCounts(pass_fail), 1),
               count_fail |-> Get(ScoreCounts(pass_fail), 0),
               most_popular_grade |->
                   IF DOMAIN all_grade_counts # {}
                   THEN Some(ModalGrades(all_grade_counts))
                   ELSE None ]

(***************************************************************************)
(* Signals (stats/signals.py) and the app configuration (stats/apps.py)    *)
(***************************************************************************)
\* The receiver of post_save and post_delete of EventRating.
update_event_statistics(R, PS, ES, instance) ==
    calculate_for_event(R, PS, ES, instance.event)

\* The receivers the running application has connected. signals.py connects
\* its receiver when the module is imported; AppStatsConfig defines no
\* ready() and no module imports stats.signals, so none is connected.
ConnectedReceivers == {}

\* Signal.send: run the connected receivers on the instance.
SendSignal(R, PS, ES, instance) ==
    IF "update_event_statistics" \in ConnectedReceivers
    THEN update_event_statistics(R, PS, ES, instance)
    ELSE [pstats |-> PS, estats |-> ES]

(***************************************************************************)
(* EventRating.save, Model.delete                                          *)
(***************************************************************************)
\* Faulty variant of save: the table has a unique constraint on the scope,
\* the participant and the referee, and the insert of a second such row
\* fails and leaves the tables as they were.
saveUnique(R, PS, ES, r) ==
    IF \E x \in BagToSet(R) : /\ x.event = r.event
                              /\ x.online_session = r.online_session
                              /\ x.offline_session = r.offline_session
                              /\ x.participant = r.participant
                              /\ x.referee = r.referee
    THEN [ratings |-> R, pstats |-> PS, estats |-> ES]
    ELSE LET R1 == R (+) SetToBag({r})
             PS2 == calculate_for_participant(R1, PS, r.event, r.participant)
             s3 == calculate_for_event(R1, PS2, ES, r.event)
         IN  [ratings |-> R1, pstats |-> s3.pstats, estats |-> s3.estats]

\* The three tables after EventRating.save() of a new row r: the insert (and
\* post_save), calculate_for_participant, then calculate_for_event.
save(R, PS, ES, r) ==
    LET R1 == R (+) SetToBag({r})
        s1 == SendSignal(R1, PS, ES, r)
        PS2 == calculate_for_participant(R1, s1.pstats, r.event, r.participant)
        s3 == calculate_for_event(R1, PS2, s1.estats, r.event)
    IN  [ratings |-> R1, pstats |-> s3.pstats, estats |-> s3.estats]

\* The three tables after r.delete(): the row goes, then post_delete.
delete(R, PS, ES, r) ==
    LET R1 == R (-) SetToBag({r})
        s1 == SendSignal(R1, PS, ES, r)
    IN  [ratings |-> R1, pstats |-> s1.pstats, estats |-> s1.estats]

(***************************************************************************)
(* EventRating.clean, Model.full_clean                                     *)
(***************************************************************************)
\* Faulty variant of ExistingRating: the pair is looked up in the whole event
\* whatever the scope of the new row.
ExistingRatingAnyScope(r, R) ==
    \E x \in BagToSet(R) : /\ x.event = r.event
                           /\ x.participant = r.participant
                           /\ x.referee = r.referee

\* The first() of the uniqueness query of clean() for a new row (pk None, so
\* exclude(pk=None) drops nothing): is there a stored row in r's scope.
ExistingRating(r, R) ==
    IF r.online_session # None
    THEN \E x \in BagToSet(R) : /\ x.online_session = r.online_session
                                /\ x.participant = r.participant
                                /\ x.referee = r.referee
    ELSE IF r.offline_session # None
    THEN \E x \in BagToSet(R) : /\ x.offline_session = r.offline_session
                                /\ x.participant = r.participant
                                /\ x.referee = r.referee
    ELSE \E x \in BagToSet(R) : /\ x.event = r.event
                                /\ x.participant = r.participant
                                /\ x.referee = r.referee

\* EventParticipant.objects.get(event=, user=, role='referee') finds a row.
RefereeParticipation(event, user) ==
    \E p \in EventParticipants : p.event = event /\ p.user = user /\ p.role = "referee"

\* Faulty variant of BothSessions: the pair of sessions is never looked at.
BothSessionsNever(r) == FALSE

\* "if self.online_session and self.offline_session": both are set.
BothSessions(r) == r.online_session # None /\ r.offline_session # None

\* Faulty variant of ScoreOutOfRange: the pass_fail branch is missing.
ScoreOutOfRangeFivePointOnly(r) ==
    r.grading_system = "five_point" /\ r.score \notin {1, 2, 3, 4, 5}

\* The if / elif on grading_system that ends clean(): the score is not one
\* the declared system allows. There is no else branch.
ScoreOutOfRange(r) ==
    \/ r.grading_system = "five_point" /\ r.score \notin {1, 2, 3, 4, 5}
    \/ r.grading_system = "pass_fail" /\ r.score \notin {0, 1}

\* clean(): the fields of the ValidationError it raises, {} when it returns.
clean(r, R) ==
    IF ~RefereeParticipation(r.event, r.referee)
    THEN {"referee"}
    ELSE IF BothSessions(r)
    THEN {"online_session", "offline_session"}
    ELSE IF r.online_session # None /\ OnlineSession(Val(r.online_session)).event # r.event
    THEN {"online_session"}
    ELSE IF r.offline_session # None /\ OfflineSession(Val(r.offline_session)).event # r.event
    THEN {"offline_session"}
    ELSE IF ExistingRating(r, R)
    THEN IF r.online_session # None THEN {"online_session"}
         ELSE IF r.offline_session # None THEN {"offline_session"}
         ELSE {"event"}
    ELSE IF ScoreOutOfRange(r)
    THEN {"score"}
    ELSE {}

\* clean_fields(): the fields whose value is not one of the field's choices.
clean_fields(r) ==
    {f \in {"score"} : r.score \notin 0 .. 5}
        \cup {f \in {"grading_system"} : r.grading_system \notin GradingSystems}

\* full_clean(): clean_fields() and clean() both run, their errors are merged.
full_clean(r, R) == clean_fields(r) \cup clean(r, R)

(***************************************************************************)
(* The judged-work track: its roster (rows of ProjectWork and              *)
(* EvaluationCriteria) and WeightedAverageCalculator (stats/calculators.py) *)
(***************************************************************************)
\* ProjectWork rows, one per participant user and event: both of event 1,
\* project 2 is not published.
ProjectWorks ==
    { [id |-> 1, event |-> 1, participant |-> 1, is_published |-> TRUE],
      [id |-> 2, event |-> 1, participant |-> 2, is_published |-> FALSE] }

Project(pid) == CHOOSE p \in ProjectWorks : p.id = pid

\* EvaluationCriteria rows of event 1, with their weight.
Criteria ==
    { [id |-> 1, event |-> 1, weight |-> 1], [id |-> 2, event |-> 1, weight |-> 3],
      [id |-> 3, event |-> 1, weight |-> 0] }

Criterion(cid) == CHOOSE c \in Criteria : c.id = cid

RECURSIVE SumEvaluations(_)
\* The sum of the scores of a set of Evaluation rows.
SumEvaluations(S) ==
    IF S = {} THEN 0
    ELSE LET e == CHOOSE x \in S : TRUE
         IN  e.score + SumEvaluations(S \ {e})

\* Faulty variant of OtherEvaluations: is_confirmed is not filtered on.
OtherEvaluationsUnconfirmed(E, eval, judge_id) ==
    {x \in E : x.project = eval.project /\ x.judge # judge_id}

\* other_evaluations: the confirmed evaluations of eval's project by the
\* other judges.
OtherEvaluations(E, eval, judge_id) ==
    {x \in E : x.project = eval.project /\ x.is_confirmed /\ x.judge # judge_id}

RECURSIVE DeviationDenominator(_, _, _)
\* A common denominator of the deviations of the evaluations S: the product
\* of the numbers of other evaluations.
DeviationDenominator(E, S, judge_id) ==
    IF S = {} THEN 1
    ELSE LET e == CHOOSE x \in S : TRUE
         IN  Cardinality(OtherEvaluations(E, e, judge_id))
                 * DeviationDenominator(E, S \ {e}, judge_id)

RECURSIVE SumDeviations(_, _, _, _)
\* sum(deviations) times the denominator den, where the deviation of an
\* evaluation is abs(eval.score - other_avg).
SumDeviations(E, S, judge_id, den) ==
    IF S = {} THEN 0
    ELSE LET e      == CHOOSE x \in S : TRUE
             others == OtherEvaluations(E, e, judge_id)
             n      == Cardinality(others)
             d      == e.score * n - SumEvaluations(others)
         IN  (IF d < 0 THEN -d ELSE d) * (den \div n)
                 + SumDeviations(E, S \ {e}, judge_id, den)

\* max(a, b) and min(a, b)
Max(a, b) == IF a >= b THEN a ELSE b

Min(a, b) == IF a <= b THEN a ELSE b

\* round(x, 2) of the binary float computed for num / den hundredths: the
\* nearest hundredth; when num / den lies exactly between two hundredths the
\* float lies beside the tie and the result is either neighbour (3.0 - 0.145
\* gives 2.85, 3.0 - 1.015 gives 1.99).
RoundFloat(num, den) ==
    LET q   == num \div den
        rem == num % den
    IN  IF 2 * rem > den THEN {q + 1}
        ELSE IF 2 * rem < den THEN {q}
        ELSE {q, q + 1}

\* calculate_judge_weight(judge_id, event_id) on the Evaluation table E: the
\* weights (in hundredths) the call can return, one unless the rounding is
\* on a tie. weight = 3.0 - (avg_deviation / 10) * 2.9, rounded to two
\* places and held in [0.1, 3.0].
calculate_judge_weight(E, judge_id, event_id) ==
    LET judge_evaluations ==
            {e \in E : /\ e.judge = judge_id
                       /\ Project(e.project).event = event_id
                       /\ e.is_confirmed}
        compared == {e \in judge_evaluations : OtherEvaluations(E, e, judge_id) # {}}
        den      == DeviationDenominator(E, compared, judge_id) * Cardinality(compared)
        weight   == RoundFloat(300 * den - 29 * SumDeviations(E, compared, judge_id,
                                   DeviationDenominator(E, compared, judge_id)), den)
    IN  IF judge_evaluations = {} THEN {100}
        ELSE IF compared = {} THEN {100}
        ELSE {Max(10, Min(300, w)) : w \in weight}

\* Faulty variant of JudgeWeightOf: the stored weights are not looked up.
JudgeWeightOfDefault(JW, event, judge) == 100

\* judge_weights of calculate_for_project: the JudgeWeight of the judge in
\* the event, 1.0 when there is no row (weights are in hundredths).
JudgeWeightOf(JW, event, judge) ==
    IF <<event, judge>> \in DOMAIN JW THEN JW[<<event, judge>>] ELSE 100

RECURSIVE SumWeightedScores(_, _, _)
\* sum(weighted_scores): eval.score * judge_weight over the evaluations S.
SumWeightedScores(S, JW, event) ==
    IF S = {} THEN 0
    ELSE LET e == CHOOSE x \in S : TRUE
         IN  e.score * JudgeWeightOf(JW, event, e.judge)
                 + SumWeightedScores(S \ {e}, JW, event)

RECURSIVE SumJudgeWeights(_, _, _)
\* sum(judge_weights_list) over the evaluations S.
SumJudgeWeights(S, JW, event) ==
    IF S = {} THEN 0
    ELSE LET e == CHOOSE x \in S : TRUE
         IN  JudgeWeightOf(JW, event, e.judge) + SumJudgeWeights(S \ {e}, JW, event)

\* The fraction num / den in lowest terms.
Fraction(num, den) == <<num \div GCD(num, den), den \div GCD(num, den)>>

\* weighted_avg of a criterion as the fraction <<numerator, denominator>>:
\* sum(weighted_scores) / sum(judge_weights_list), or the plain mean of the
\* scores when the weights sum to zero.
CriterionWeightedAvg(S, JW, event) ==
    IF SumJudgeWeights(S, JW, event) > 0
    THEN Fraction(SumWeightedScores(S, JW, event), SumJudgeWeights(S, JW, event))
    ELSE Fraction(SumEvaluations(S), Cardinality(S))

RECURSIVE ProductOfDenominators(_, _)
\* A common denominator of the fractions avg[c], c in C.
ProductOfDenominators(avg, C) ==
    IF C = {} THEN 1
    ELSE LET c == CHOOSE x \in C : TRUE
         IN  avg[c][2] * ProductOfDenominators(avg, C \ {c})

RECURSIVE TotalWeightedSum(_, _, _)
\* total_weighted_sum times the denominator den: the sum over the criteria C
\* of weighted_avg * data['weight'].
TotalWeightedSum(avg, C, den) ==
    IF C = {} THEN 0
    ELSE LET c == CHOOSE x \in C : TRUE
         IN  avg[c][1] * (den \div avg[c][2]) * Criterion(c).weight
                 + TotalWeightedSum(avg, C \ {c}, den)

RECURSIVE TotalWeightSum(_)
\* total_weight_sum: the sum of the weights of the criteria C.
TotalWeightSum(C) ==
    IF C = {} THEN 0
    ELSE LET c == CHOOSE x \in C : TRUE
         IN  Criterion(c).weight + TotalWeightSum(C \ {c})

\* The dict calculate_for_project returns for a project without confirmed
\* evaluations.
ProjectResultEmpty(project) ==
    [ weighted_average |-> 0, raw_average |-> 0, total_score |-> 0,
      criteria_count |-> 0, judge_count |-> 0 ]

\* calculate_for_project(project) on the Evaluation table E and the
\* JudgeWeight table JW: the dict it returns (averages in hundredths, without
\* the titles and calculated_at).
calculate_for_project(E, JW, project) ==
    LET evals   == {e \in E : e.project = project.id /\ e.is_confirmed}
        C       == {e.criteria : e \in evals}
        of(c)   == {e \in evals : e.criteria = c}
        avg     == [c \in C |-> CriterionWeightedAvg(of(c), JW, project.event)]
        den     == ProductOfDenominators(avg, C)
    IN  IF evals = {} THEN ProjectResultEmpty(project)
        ELSE [ project_id |-> project.id,
               final_weighted_average |->
                   IF TotalWeightSum(C) > 0
                   THEN RoundHalfEven(TotalWeightedSum(avg, C, den),
                                      den * TotalWeightSum(C), 100)
                   ELSE 0,
               criteria_details |->
                   [ c \in C |->
                       [ weighted_average |-> RoundHalfEven(avg[c][1], avg[c][2], 100),
                         raw_average |->
                             RoundHalfEven(SumEvaluations(of(c)), Cardinality(of(c)), 100),
                         score_count |-> Cardinality(of(c)) ] ],
               total_evaluations |-> Cardinality(evals),
               unique_judges |-> Cardinality({e.judge : e \in evals}) ]

\* JudgeWeightSerializer.validate(data) with a weight in hundredths: the
\* ValidationError it raises, "" when it returns the data.
JudgeWeightValidate(event, judge, weight) ==
    IF ~\E p \in EventParticipants :
           p.event = event /\ p.user = judge /\ p.role = "referee" /\ p.is_confirmed
    THEN "not a referee"
    ELSE IF weight # 0 /\ (weight < 10 \/ weight > 300)
    THEN "weight out of range"
    ELSE ""

(***************************************************************************)
(* StatisticsService (stats/services.py)                                   *)
(***************************************************************************)
\* The outcome of a call: the exception it raises or the value it returns.
Raise(exc) == [raised |-> exc, value |-> None]

Return(v) == [raised |-> "", value |-> v]

\* The names bound in the module namespace of services.py: its imports and
\* its class. The functions use Avg, which is not among them.
ServicesGlobals ==
    { "timedelta", "Dict", "Any", "List", "timezone", "cache", "Event", "EventParticipant",
      "CachedStatistic", "ProjectWork", "Evaluation", "EvaluationCriteria", "JudgeWeight",
      "StatisticSnapshot", "WeightedAverageCalculator", "TrendCalculator",
      "ConsensusCalculator", "EngagementCalculator", "StatisticsService" }

\* The published projects of an event.
Published(event_id) == {p \in ProjectWorks : p.event = event_id /\ p.is_published}

RECURSIVE Rankings(_)
\* list.sort(key=weighted_average, reverse=True) of a set of ranking rows
\* gathered in id order: the largest average first, equal averages in id
\* order; each row gets its place as rank.
Rankings(S) ==
    IF S = {} THEN <<>>
    ELSE LET m == CHOOSE x \in S : \A y \in S :
                      \/ x.weighted_average > y.weighted_average
                      \/ /\ x.weighted_average = y.weighted_average
                         /\ x.project_id <= y.project_id
         IN  <<m>> \o Rankings(S \ {m})

\* _calculate_event_summary(event_id): the outcome. The evaluation statistics
\* (line 102) need Avg; the ranking loop reads final_weighted_average of
\* every published project (line 130). The returned dict is carried without
\* the participant counts, the criteria statistics and the metrics.
calculate_event_summary(E, JW, event_id) ==
    LET evals  == {e \in E : Project(e.project).event = event_id /\ e.is_confirmed}
        result == [p \in Published(event_id) |-> calculate_for_project(E, JW, p)]
    IN  IF event_id \notin Events
        THEN Return([error |-> "event not found"])
        ELSE IF "Avg" \notin ServicesGlobals
        THEN Raise("NameError")
        ELSE IF \E p \in Published(event_id) :
                   "final_weighted_average" \notin DOMAIN result[p]
        THEN Raise("KeyError")
        ELSE Return(
               [ event_id |-> event_id,
                 projects |-> [ total |-> Cardinality({p \in ProjectWorks : p.event = event_id}),
                                published |-> Cardinality(Published(event_id)) ],
                 evaluations |-> [ total |-> Cardinality(evals) ],
                 project_rankings |->
                     Rankings({ [ project_id |-> p.id,
                                  weighted_average |-> result[p].final_weighted_average,
                                  evaluation_count |-> result[p].total_evaluations ] :
                                p \in Published(event_id) }) ])

\* dict[key] = value on a cache or a table.
Put(d, key, value) == (key :> value) @@ d

\* cache.delete(key) / the rows of a table without those of the keys K.
Without(d, K) == [k \in DOMAIN d \ K |-> d[k]]

\* _save_to_db_cache: update_or_create of the CachedStatistic row, expiring
\* in 24 hours. The row refers to the event by a foreign key.
save_to_db_cache(CS, event_id, stat_type, data) ==
    IF event_id \notin Events
    THEN [raised |-> "IntegrityError", cached_stats |-> CS]
    ELSE [raised |-> "",
          cached_stats |-> Put(CS, <<event_id, stat_type>>,
                               [data |-> data, expired |-> FALSE, old |-> FALSE])]

\* CachedStatistic.is_expired(): the stored expires_at has passed.
is_expired(row) == row.expired

\* get_event_summary(event_id, force_refresh): the outcome and the cache and
\* the CachedStatistic table it leaves.
get_event_summary(C, CS, E, JW, event_id, force_refresh) ==
    LET cache_key == <<"event_summary", event_id>>
        db_key    == <<event_id, "event_summary">>
        summary   == calculate_event_summary(E, JW, event_id)
        saved     == save_to_db_cache(CS, event_id, "event_summary", summary.value)
    IN  IF ~force_refresh /\ cache_key \in DOMAIN C
        THEN [out |-> Return(C[cache_key]), cache |-> C, cached_stats |-> CS]
        ELSE IF ~force_refresh /\ db_key \in DOMAIN CS /\ ~is_expired(CS[db_key])
        THEN [out |-> Return(CS[db_key].data),
              cache |-> Put(C, cache_key, CS[db_key].data), cached_stats |-> CS]
        ELSE IF summary.raised # ""
        THEN [out |-> summary, cache |-> C, cached_stats |-> CS]
        ELSE IF saved.raised # ""
        THEN [out |-> Raise(saved.raised),
              cache |-> Put(C, cache_key, summary.value), cached_stats |-> CS]
        ELSE [out |-> summary,
              cache |-> Put(C, cache_key, summary.value),
              cached_stats |-> saved.cached_stats]

\* The rows of a project that carry final_weighted_average, for a ranking.
RankingRows(E, JW, event_id) ==
    LET result == [p \in Published(event_id) |-> calculate_for_project(E, JW, p)]
    IN  { [ project_id |-> p.id,
            weighted_average |-> result[p].final_weighted_average,
            evaluation_count |-> result[p].total_evaluations ] :
          p \in {q \in Published(event_id) :
                    "final_weighted_average" \in DOMAIN result[q]} }

\* _calculate_leaderboard(event_id, limit): rankings[:limit].
calculate_leaderboard(E, JW, event_id, limit) ==
    LET rankings == Rankings(RankingRows(E, JW, event_id))
    IN  SubSeq(rankings, 1, Min(limit, Len(rankings)))

\* get_leaderboard(event_id, limit): the list returned and the cache left.
\* "if cached" is false for a cached empty list.
get_leaderboard(C, E, JW, event_id, limit) ==
    LET cache_key   == <<"leaderboard", event_id, limit>>
        leaderboard == calculate_leaderboard(E, JW, event_id, limit)
    IN  IF cache_key \in DOMAIN C /\ C[cache_key] # <<>>
        THEN [out |-> Return(C[cache_key]), cache |-> C]
        ELSE [out |-> Return(leaderboard), cache |-> Put(C, cache_key, leaderboard)]

\* The place of a project in a ranking, None when it is not in it.
RankOf(rankings, project_id) ==
    IF \E i \in 1 .. Len(rankings) : rankings[i].project_id = project_id
    THEN Some(CHOOSE i \in 1 .. Len(rankings) : rankings[i].project_id = project_id)
    ELSE None

\* The ranking entry of _calculate_participant_as_participant: the place of
\* the project in the leaderboard of all projects and its length.
participant_ranking(rankings, project_id) ==
    [rank |-> RankOf(rankings, project_id), total_projects |-> Len(rankings)]

\* _calculate_participant_as_participant: the dict returned (without the
\* judge feedback and the engagement).
calculate_participant_as_participant(E, JW, participant) ==
    LET projects == {p \in ProjectWorks : /\ p.participant = participant.user
                                          /\ p.event = participant.event}
        project  == CHOOSE p \in projects : TRUE
    IN  IF projects = {}
        THEN [role |-> participant.role, project |-> None]
        ELSE [ role |-> participant.role,
               project |-> calculate_for_project(E, JW, project),
               ranking |-> participant_ranking(
                               Rankings(RankingRows(E, JW, participant.event)),
                               project.id) ]

\* _calculate_participant_as_owner: the role with the event summary;
\* summary is what get_event_summary left.
calculate_participant_as_owner(participant, summary) ==
    [ out |-> IF summary.out.raised # "" THEN summary.out
              ELSE Return([role |-> participant.role, summary |-> summary.out.value]),
      cache |-> summary.cache, cached_stats |-> summary.cached_stats ]

\* _calculate_participant_stats(user_id, event_id): the outcome and the
\* cache and the CachedStatistic table left (the referee's evaluation
\* statistics (line 298) need Avg).
calculate_participant_stats(C, CS, E, JW, user_id, event_id) ==
    LET found       == {p \in EventParticipants : p.user = user_id /\ p.event = event_id}
        participant == CHOOSE p \in found : TRUE
    IN  IF found = {}
        THEN [out |-> Return([error |-> "participant not found"]),
              cache |-> C, cached_stats |-> CS]
        ELSE IF participant.role = "participant"
        THEN [out |-> Return(calculate_participant_as_participant(E, JW, participant)),
              cache |-> C, cached_stats |-> CS]
        ELSE IF participant.role = "referee"
        THEN [out |-> IF "Avg" \notin ServicesGlobals THEN Raise("NameError")
                      ELSE Return([ role |-> participant.role,
                                    judge_weight |-> JudgeWeightOf(JW, event_id, user_id) ]),
              cache |-> C, cached_stats |-> CS]
        ELSE calculate_participant_as_owner(
                 participant, get_event_summary(C, CS, E, JW, event_id, FALSE))

\* cache.set(cache_key, result) of get_participant_statistics, reached when
\* the statistics were computed: result is what _calculate_participant_stats
\* left.
set_participant_statistics(cache_key, result) ==
    IF result.out.raised # ""
    THEN result
    ELSE [out |-> result.out,
          cache |-> Put(result.cache, cache_key, result.out.value),
          cached_stats |-> result.cached_stats]

\* get_participant_statistics(user_id, event_id)
get_participant_statistics(C, CS, E, JW, user_id, event_id) ==
    IF <<"participant_stats", event_id, user_id>> \in DOMAIN C
    THEN [out |-> Return(C[<<"participant_stats", event_id, user_id>>]),
          cache |-> C, cached_stats |-> CS]
    ELSE set_participant_statistics(
             <<"participant_stats", event_id, user_id>>,
             calculate_participant_stats(C, CS, E, JW, user_id, event_id))

\* The id that stands for the text '*' in the keys 'participant_stats_<id>_*'
\* and 'leaderboard_<id>_*' that invalidate_cache deletes.
Star == -1

\* invalidate_cache(event_id, stat_type), each None or a value: the number of
\* CachedStatistic rows deleted and the cache and the table left.
invalidate_cache(C, CS, event_id, stat_type) ==
    LET deleted == {k \in DOMAIN CS : /\ event_id # None => k[1] = Val(event_id)
                                      /\ stat_type # None => k[2] = Val(stat_type)}
    IN  [ out |-> Return(Cardinality(deleted)),
          cache |-> IF event_id # None
                    THEN Without(C, { <<"event_summary", Val(event_id)>>,
                                      <<"participant_stats", Val(event_id), Star>>,
                                      <<"leaderboard", Val(event_id), Star>> })
                    ELSE Without(C, DOMAIN C),
          cached_stats |-> Without(CS, deleted) ]

\* StatisticSnapshot.objects.create of take_snapshot, reached when the
\* summary was computed: summary is what get_event_summary left.
create_snapshot(SN, event_id, snapshot_type, summary) ==
    IF summary.out.raised # ""
    THEN [ out |-> summary.out, cache |-> summary.cache,
           cached_stats |-> summary.cached_stats, snapshots |-> SN ]
    ELSE [ out |-> Return([ event |-> event_id, snapshot_type |-> snapshot_type,
                            data |-> summary.out.value ]),
           cache |-> summary.cache,
           cached_stats |-> summary.cached_stats,
           snapshots |-> Append(SN, [ event |-> event_id, snapshot_type |-> snapshot_type,
                                      data |-> summary.out.value ]) ]

\* take_snapshot(event_id, snapshot_type): the outcome and the cache and the
\* tables left. The summary is recomputed, then the snapshot row is created.
take_snapshot(C, CS, SN, E, JW, event_id, snapshot_type) ==
    create_snapshot(SN, event_id, snapshot_type,
                    get_event_summary(C, CS, E, JW, event_id, TRUE))

\* The events daily_statistics_snapshot sweeps (is_active, published or
\* completed), in the order of the queryset.
ActiveEvents == <<1, 2>>

RECURSIVE sweep_active_events(_, _, _, _, _)
\* The loop of daily_statistics_snapshot from the i-th active event on, with
\* created_count snapshots taken: prev is what the step before left. The
\* first exception ends the sweep.
sweep_active_events(prev, E, JW, i, created_count) ==
    IF prev.out.raised # ""
    THEN [ out |-> Return([status |-> "error", error |-> prev.out.raised]),
           cache |-> prev.cache, cached_stats |-> prev.cached_stats,
           snapshots |-> prev.snapshots ]
    ELSE IF i > Len(ActiveEvents)
    THEN [ out |-> Return([status |-> "success", snapshots_created |-> created_count]),
           cache |-> prev.cache, cached_stats |-> prev.cached_stats,
           snapshots |-> prev.snapshots ]
    ELSE sweep_active_events(
             take_snapshot(prev.cache, prev.cached_stats, prev.snapshots, E, JW,
                           ActiveEvents[i], "daily"),
             E, JW, i + 1, created_count + 1)

\* daily_statistics_snapshot(): the dict returned and the cache and the
\* tables left.
daily_statistics_snapshot(C, CS, SN, E, JW) ==
    sweep_active_events([out |-> Return(None), cache |-> C, cached_stats |-> CS,
                         snapshots |-> SN], E, JW, 1, 0)

\* cleanup_old_statistics(days_old = 30): the CachedStatistic rows calculated
\* before the cutoff are deleted.
cleanup_old_statistics(CS) ==
    LET deleted == {k \in DOMAIN CS : CS[k].old}
    IN  [ out |-> Return([status |-> "success", deleted_count |-> Cardinality(deleted)]),
          cached_stats |-> Without(CS, deleted) ]

\* The JudgeWeight table after update_or_create of the weight w[j] of every
\* judge j of the event.
StoreJudgeWeights(JW, event_id, judges, w) ==
    [ k \in DOMAIN JW \cup {<<event_id, j>> : j \in judges} |->
        IF k[1] = event_id /\ k[2] \in judges THEN w[k[2]] ELSE JW[k] ]

\* tasks.update_judge_weights(event_id): the outcomes it can have (one per
\* weight a rounding tie allows). The weight of every confirmed referee of
\* the event is computed and stored, then the event_summary cache of the
\* event is invalidated.
update_judge_weights(E, JW, C, CS, event_id) ==
    LET judges == {p.user : p \in {q \in EventParticipants :
                       q.event = event_id /\ q.role = "referee" /\ q.is_confirmed}}
    IN  { [ out |-> [status |-> "success", updated_judges |-> Cardinality(judges)],
            jweights |-> StoreJudgeWeights(JW, event_id, judges, w),
            cache |-> invalidate_cache(C, CS, Some(event_id), Some("event_summary")).cache,
            cached_stats |->
                invalidate_cache(C, CS, Some(event_id), Some("event_summary")).cached_stats ] :
          w \in { v \in [judges -> 10 .. 300] :
                     \A j \in judges : v[j] \in calculate_judge_weight(E, j, event_id) } }

\* tasks.recalculate_event_statistics(event_id), where summary is what
\* get_event_summary(event_id, force_refresh=True) did: an exception is
\* logged and turned into the status 'error'.
recalculate_event_statistics(event_id, summary) ==
    [ out |-> IF summary.out.raised # ""
              THEN [status |-> "error", event_id |-> event_id, error |-> summary.out.raised]
              ELSE [status |-> "success", event_id |-> event_id],
      cache |-> summary.cache,
      cached_stats |-> summary.cached_stats ]

\* The end of process_new_evaluation: updated and recalculated are what its
\* two steps returned, logged the steps that logged an error. The dicts the
\* steps return are dropped.
processed_evaluation(updated, recalculated) ==
    [ out |-> [status |-> "success"],
      logged |-> {step \in {"update_judge_weights"} : updated.out.status = "error"}
                     \cup {step \in {"recalculate_event_statistics"} :
                               recalculated.out.status = "error"},
      jweights |-> updated.jweights,
      cache |-> recalculated.cache,
      cached_stats |-> recalculated.cached_stats ]

\* tasks.process_new_evaluation(evaluation_id) for the id of the row
\* evaluation (of no row when the table does not hold it): the outcomes it
\* can have.
process_new_evaluation(E, JW, C, CS, evaluation) ==
    IF evaluation \notin E
    THEN { [ out |-> [status |-> "error", message |-> "evaluation not found"],
             logged |-> {"process_new_evaluation"},
             jweights |-> JW, cache |-> C, cached_stats |-> CS ] }
    ELSE { processed_evaluation(
               updated,
               recalculate_event_statistics(
                   Project(evaluation.project).event,
                   get_event_summary(updated.cache, updated.cached_stats, E, updated.jweights,
                                     Project(evaluation.project).event, TRUE))) :
           updated \in update_judge_weights(E, JW, C, CS, Project(evaluation.project).event) }

(***************************************************************************)
(* FileShareLink (files/models.py) and its endpoints (files/views.py)      *)
(***************************************************************************)
\* A FileShareLink row as FileShareLinkSerializer.create stores it: active,
\* nothing downloaded. expires_at is None or a time; max_downloads 0 stands
\* for no limit.
NewShareLink(max_downloads, expires_at) ==
    [ is_active |-> TRUE, expires_at |-> expires_at, max_downloads |-> max_downloads,
      download_count |-> 0 ]

\* FileShareLink.is_expired at the time now.
is_expired_link(link, now) ==
    IF link.expires_at # None THEN now > Val(link.expires_at) ELSE FALSE

\* FileShareLink.is_valid at the time now.
is_valid(link, now) ==
    /\ link.is_active
    /\ ~is_expired_link(link, now)
    /\ (link.max_downloads = 0 \/ link.download_count < link.max_downloads)

(***************************************************************************)
(* The endpoints (stats/views.py, stats/urls.py)                           *)
(***************************************************************************)
\* The users with is_staff: user 2, a participant of event 1, and user 6, a
\* member of nothing.
StaffUsers == {2, 6}

\* Event.owner of an event.
EventOwner(event) == 5

\* request.user of the requests sent: None is AnonymousUser.
Requesters == {None} \cup {Some(u) : u \in {1, 2, 3, 5, 6}}

\* The status of a request IsAuthenticated refuses: 401 when the first
\* authentication class of the settings gives a WWW-Authenticate header, else
\* 403.
NotAuthenticatedStatus == {401, 403}

\* The access check of the leaderboard, the participants' statistics, the
\* final score and the session statistics passes: request.user has an
\* EventParticipant row of the event, and its role is referee or owner or the
\* user is staff.
RoleAllowed(event, user) ==
    \E p \in EventParticipants :
        /\ p.event = event
        /\ p.user = user
        /\ (p.role \in {"referee", "owner"} \/ user \in StaffUsers)

\* The outcome of a request: the status of the response, whether a rating
\* was stored and whether an aggregation ran (the body is not carried).
Response(endpoint, user, event, status, stored, aggregated) ==
    [ op |-> endpoint, user |-> user, event |-> event, status |-> status,
      stored |-> stored, aggregated |-> aggregated ]

\* The responses to a request of AnonymousUser: permission_classes =
\* [IsAuthenticated] ends it before the view body runs.
NotAuthenticated(endpoint, user, event) ==
    {Response(endpoint, user, event, st, FALSE, FALSE) : st \in NotAuthenticatedStatus}

\* The responses of a GET endpoint that checks the role and then reads;
\* aggregated tells whether the read computes an aggregate.
RoleCheckedGet(endpoint, user, event, aggregated) ==
    IF user = None
    THEN NotAuthenticated(endpoint, user, event)
    ELSE IF RoleAllowed(event, Val(user))
    THEN {Response(endpoint, user, event, 200, FALSE, aggregated)}
    ELSE {Response(endpoint, user, event, 403, FALSE, FALSE)}

(***************************************************************************)
(* The rows the operations are tried on                                    *)
(***************************************************************************)
Rating(e, on, off, p, ref, gs, sc) ==
    [ event |-> e, online_session |-> on, offline_session |-> off, participant |-> p,
      referee |-> ref, grading_system |-> gs, score |-> sc ]

\* Scopes of event 1: the bare event, an online and an offline session.
SaveScopes == { <<None, None>>, <<Some(1), None>>, <<None, Some(1)>> }

\* The rows the aggregation runs store, all of event 1 by its referee:
\* participant 1 is rated in every scope, participant 2 in the bare event.
SaveInputs ==
    { Rating(1, sc[1], sc[2], 1, 3, g[1], g[2]) :
        sc \in SaveScopes, g \in {<<"five_point", 4>>, <<"five_point", 5>>, <<"pass_fail", 1>>} }
    \cup { Rating(1, None, None, 2, 3, g[1], g[2]) :
             g \in {<<"five_point", 5>>, <<"pass_fail", 0>>} }

\* The rows the concurrent creates carry: participant 1 of event 1 rated by
\* its referee, twice in the bare event and twice in online session 1.
CreateInputs ==
    { Rating(1, None, None, 1, 3, "five_point", 4),
      Rating(1, None, None, 1, 3, "five_point", 5),
      Rating(1, Some(1), None, 1, 3, "five_point", 4),
      Rating(1, Some(1), None, 1, 3, "pass_fail", 1) }

\* The rows the interleaved writers store: ratings of participants 1 and 2 of
\* event 1 by its referee, in the bare event and in online session 1.
WriteInputs ==
    { Rating(1, None, None, 1, 3, "five_point", 4),
      Rating(1, Some(1), None, 2, 3, "five_point", 5),
      Rating(1, None, None, 2, 3, "pass_fail", 1) }

\* The rows the session runs store, all of event 1 by its referee: five_point
\* and pass_fail ratings of participants 1 and 2 in online session 1, one
\* rating in online session 2 and one in offline session 1.
SessionInputs ==
    { Rating(1, Some(1), None, g[1], 3, g[2], g[3]) :
        g \in { <<1, "five_point", 1>>, <<1, "five_point", 5>>, <<2, "five_point", 4>>,
                <<2, "pass_fail", 1>>, <<1, "pass_fail", 0>> } }
    \cup { Rating(1, Some(2), None, 2, 3, "five_point", 5),
           Rating(1, None, Some(1), 1, 3, "five_point", 3) }

\* The sessions calculate_for_session is called on.
SessionCalls == { <<"online", 1>>, <<"online", 2>>, <<"offline", 1>> }

\* The requests sent to the rate-participant endpoint: a bare-event rating
\* of participant 2, by the referee (user 3) or by participant 1 (user 1).
RateInputs == { Rating(1, None, None, 2, ref, "five_point", 5) : ref \in {1, 3} }

\* The rows the validation runs store: ratings of participant 1 of event 1
\* by its referee, one per scope.
SeedInputs ==
    { Rating(1, sc[1], sc[2], 1, 3, "five_point", 4) :
        sc \in SaveScopes \cup {<<Some(2), None>>} }

\* The rows the validation runs validate, all naming event 1: any
\* combination of sessions (session 3 is of event 2), a participant row of
\* either event, any kind of referee, a score in or out of range.
CleanScopes ==
    { <<None, None>>, <<Some(1), None>>, <<Some(2), None>>, <<Some(3), None>>,
      <<None, Some(1)>>, <<Some(1), Some(1)>> }

CleanInputs ==
    { Rating(1, sc[1], sc[2], p, ref, "five_point", score) :
        sc \in CleanScopes, p \in {1, 3, 5}, ref \in {1, 3, 4, 6}, score \in {0, 4} }

\* The rows the event-statistics runs store, all of event 1 by its referee:
\* participant row 1 is rated in the bare event and in online session 1,
\* rows 2 and 6 in the bare event.
EventInputs ==
    { Rating(1, None, None, 1, 3, g[1], g[2]) :
        g \in {<<"five_point", 4>>, <<"five_point", 5>>, <<"pass_fail", 0>>} }
    \cup { Rating(1, Some(1), None, 1, 3, g[1], g[2]) :
             g \in {<<"five_point", 4>>, <<"pass_fail", 1>>} }
    \cup { Rating(1, None, None, 2, 3, g[1], g[2]) :
             g \in {<<"five_point", 5>>, <<"pass_fail", 0>>} }
    \cup { Rating(1, None, None, 6, 3, "five_point", 4) }

\* The rows the field-validation runs store: ratings of participant 1 of
\* event 1 by its referee, in the bare event and in online session 1.
FieldSeedInputs ==
    { Rating(1, sc[1], sc[2], 1, 3, "five_point", 4) :
        sc \in {<<None, None>>, <<Some(1), None>>} }

\* The session pairs the field-validation runs validate: none, one, and both
\* set (the online session of the rating's event or of the other one).
FieldScopes ==
    { <<None, None>>, <<Some(2), None>>, <<Some(1), Some(1)>>, <<Some(3), Some(1)>> }

\* The rows the field-validation runs validate: either event, a participant
\* row of either event, a referee of event 1 or a member of nothing, a known
\* or unknown grading system, a score below, in and above every range.
FieldInputs ==
    { Rating(e, sc[1], sc[2], p, ref, gs, score) :
        e \in Events, sc \in FieldScopes, p \in {2, 5}, ref \in {3, 6},
        gs \in GradingSystems \cup {"ten_point"}, score \in {0, 1, 2, 5, 6} }

Evaluation(j, p, c, sc, conf) ==
    [ judge |-> j, project |-> p, criteria |-> c, score |-> sc, is_confirmed |-> conf ]

\* The evaluations the judged-work runs store: users 3, 4 and 5 judge both
\* projects on criterion 1, user 4 project 1 on criterion 2 as well; a
\* confirmed 4, 6 or 8 or an unconfirmed 6.
EvaluationInputs ==
    { Evaluation(t[1], t[2], t[3], v[1], v[2]) :
        t \in ({3, 4, 5} \X {1, 2} \X {1}) \cup {<<4, 1, 2>>},
        v \in {<<4, TRUE>>, <<6, TRUE>>, <<8, TRUE>>, <<6, FALSE>>} }

\* The evaluations the service runs store: project 1 judged by users 3 and
\* 4; project 2 stays without evaluations.
ServiceEvaluationInputs ==
    { Evaluation(3, 1, 1, 6, TRUE), Evaluation(4, 1, 1, 8, TRUE) }

\* The evaluations the project runs store, all of project 1: users 3, 4 and
\* 5 judge criterion 1, user 3 criterion 3 (weight 0), user 4 criterion 2; a
\* confirmed 4, 8 or 40 or an unconfirmed 6.
ProjectEvaluationInputs ==
    { Evaluation(t[1], 1, t[2], v[1], v[2]) :
        t \in {<<3, 1>>, <<4, 1>>, <<5, 1>>, <<3, 3>>, <<4, 2>>},
        v \in {<<4, TRUE>>, <<8, TRUE>>, <<40, TRUE>>, <<6, FALSE>>} }

\* The weights (in hundredths) sent to JudgeWeightSerializer: the two ends of
\* the range, the values next to them, and 0.
WeightInputs == {0, 5, 10, 300, 301}

\* The evaluations the task runs store and process, all of project 1 on
\* criterion 1: user 3 (the confirmed referee of event 1) gives 6, user 4
\* gives 6 or 8, user 5 gives 4.
TaskEvaluationInputs ==
    { Evaluation(3, 1, 1, 6, TRUE), Evaluation(4, 1, 1, 6, TRUE),
      Evaluation(4, 1, 1, 8, TRUE), Evaluation(5, 1, 1, 4, TRUE) }

\* The tokens of the share links; no row ever holds token 2.
Tokens == {1}

MissingToken == 2

\* The limits and the expiry times share links are created and updated with.
MaxDownloadsInputs == {0, 1, 2}

ExpiresAtInputs == {None, Some(0)}

\* The event ids the service is called with: the two events and an id no
\* event has.
EventIds == Events \cup {3}

\* EventRating.objects.create(...) / rating.save() of a new row.
Save(r) ==
    /\ BagCardinality(ratings) < MaxRatings
    /\ \E s \in {save(ratings, pstats, estats, r)} :
           /\ ratings' = s.ratings
           /\ pstats' = s.pstats
           /\ estats' = s.estats
    /\ last' = [op |-> "save"]
    /\ UNCHANGED <<judgedVars, creates, threads, filesVars>>

\* rating.delete() of a stored row.
Delete(r) ==
    /\ BagIn(r, ratings)
    /\ \E s \in {delete(ratings, pstats, estats, r)} :
           /\ ratings' = s.ratings
           /\ pstats' = s.pstats
           /\ estats' = s.estats
    /\ last' = [op |-> "delete"]
    /\ UNCHANGED <<judgedVars, creates, threads, filesVars>>

Init ==
    /\ ratings = EmptyBag
    /\ pstats = [k \in {} |-> ParticipantStatisticsDefaults]
    /\ estats = [e \in {} |-> 0]
    /\ last = [op |-> "init"]
    /\ evaluations = {}
    /\ jweights = [k \in {} |-> 0]
    /\ cache = [k \in {} |-> 0]
    /\ cached_stats = [k \in {} |-> 0]
    /\ snapshots = <<>>
    /\ creates = [p \in Processes |-> [pc |-> "idle"]]
    /\ threads = {}
    /\ share_links = [t \in {} |-> 0]
    /\ downloads = [p \in Processes |-> [pc |-> "idle"]]
    /\ clock = 0

\* RateParticipantView.perform_create on data the serializer accepted: the
\* referee check, then serializer.save().
RateParticipant(r) ==
    /\ BagCardinality(ratings) < MaxRatings
    /\ IF RefereeParticipation(r.event, r.referee)
       THEN /\ \E s \in {save(ratings, pstats, estats, r)} :
                  /\ ratings' = s.ratings
                  /\ pstats' = s.pstats
                  /\ estats' = s.estats
            /\ last' = [op |-> "rate", status |-> 201]
       ELSE /\ UNCHANGED <<ratings, pstats, estats>>
            /\ last' = [op |-> "rate", status |-> 403]
    /\ UNCHANGED <<judgedVars, creates, threads, filesVars>>

\* rating.full_clean() on an unsaved row: nothing is stored.
FullClean(r) ==
    /\ last' = [op |-> "full_clean", rating |-> r, errors |-> full_clean(r, ratings)]
    /\ UNCHANGED <<ratings, pstats, estats>>
    /\ UNCHANGED <<judgedVars, creates, threads, filesVars>>

\* An Evaluation row is created: one per judge, project and criterion.
CreateEvaluation(e) ==
    /\ Cardinality(evaluations) < MaxEvaluations
    /\ ~\E x \in evaluations :
           x.judge = e.judge /\ x.project = e.project /\ x.criteria = e.criteria
    /\ evaluations' = evaluations \cup {e}
    /\ last' = [op |-> "create_evaluation"]
    /\ UNCHANGED <<ratings, pstats, estats, jweights, cache, cached_stats, snapshots,
                   creates, threads, filesVars>>

\* WeightedAverageCalculator.calculate_judge_weight(judge_id, event_id):
\* a read-only computation.
CalculateJudgeWeight(judge_id, event_id) ==
    /\ \E w \in calculate_judge_weight(evaluations, judge_id, event_id) :
           last' = [ op |-> "calculate_judge_weight", judge |-> judge_id,
                     event |-> event_id, weight |-> w ]
    /\ UNCHANGED <<ratings, pstats, estats, judgedVars, creates, threads, filesVars>>

\* StatisticsService.get_event_summary(event_id, force_refresh)
GetEventSummary(event_id, force_refresh) ==
    /\ \E s \in {get_event_summary(cache, cached_stats, evaluations, jweights,
                                    event_id, force_refresh)} :
           /\ cache' = s.cache
           /\ cached_stats' = s.cached_stats
           /\ last' = [ op |-> "get_event_summary", event |-> event_id,
                        force_refresh |-> force_refresh, out |-> s.out ]
    /\ UNCHANGED <<ratings, pstats, estats, evaluations, jweights, snapshots,
                   creates, threads, filesVars>>

\* StatisticsService.get_leaderboard(event_id, limit)
GetLeaderboard(event_id, limit) ==
    /\ \E s \in {get_leaderboard(cache, evaluations, jweights, event_id, limit)} :
           /\ cache' = s.cache
           /\ last' = [ op |-> "get_leaderboard", event |-> event_id, out |-> s.out ]
    /\ UNCHANGED <<ratings, pstats, estats, evaluations, jweights, cached_stats, snapshots,
                   creates, threads, filesVars>>

\* StatisticsService.get_participant_statistics(user_id, event_id)
GetParticipantStatistics(user_id, event_id) ==
    /\ \E s \in {get_participant_statistics(cache, cached_stats, evaluations, jweights,
                                             user_id, event_id)} :
           /\ cache' = s.cache
           /\ cached_stats' = s.cached_stats
           /\ last' = [ op |-> "get_participant_statistics", event |-> event_id,
                        user |-> user_id, out |-> s.out ]
    /\ UNCHANGED <<ratings, pstats, estats, evaluations, jweights, snapshots,
                   creates, threads, filesVars>>

\* WeightedAverageCalculator.calculate_for_project(project): read-only.
CalculateForProject(project) ==
    /\ last' = [ op |-> "calculate_for_project", event |-> project.event,
                 project |-> project.id,
                 out |-> Return(calculate_for_project(evaluations, jweights, project)) ]
    /\ UNCHANGED <<ratings, pstats, estats, judgedVars, creates, threads, filesVars>>

\* StatisticsService.take_snapshot(event_id)
TakeSnapshot(event_id) ==
    /\ Len(snapshots) < MaxSnapshots
    /\ \E s \in {take_snapshot(cache, cached_stats, snapshots, evaluations, jweights,
                                event_id, "manual")} :
           /\ cache' = s.cache
           /\ cached_stats' = s.cached_stats
           /\ snapshots' = s.snapshots
           /\ last' = [op |-> "take_snapshot", event |-> event_id, out |-> s.out]
    /\ UNCHANGED <<ratings, pstats, estats, evaluations, jweights, creates, threads, filesVars>>

\* StatisticsService.invalidate_cache(event_id, stat_type)
InvalidateCache(event_id, stat_type) ==
    /\ \E s \in {invalidate_cache(cache, cached_stats, event_id, stat_type)} :
           /\ cache' = s.cache
           /\ cached_stats' = s.cached_stats
           /\ last' = [ op |-> "invalidate_cache", event |-> event_id,
                        stat_type |-> stat_type, out |-> s.out ]
    /\ UNCHANGED <<ratings, pstats, estats, evaluations, jweights, snapshots,
                   creates, threads, filesVars>>

\* tasks.daily_statistics_snapshot()
DailyStatisticsSnapshot ==
    /\ Len(snapshots) + Len(ActiveEvents) <= MaxSnapshots
    /\ \E s \in {daily_statistics_snapshot(cache, cached_stats, snapshots, evaluations,
                                            jweights)} :
           /\ cache' = s.cache
           /\ cached_stats' = s.cached_stats
           /\ snapshots' = s.snapshots
           /\ last' = [op |-> "daily_statistics_snapshot", out |-> s.out]
    /\ UNCHANGED <<ratings, pstats, estats, evaluations, jweights, creates, threads, filesVars>>

\* tasks.cleanup_old_statistics()
CleanupOldStatistics ==
    /\ \E s \in {cleanup_old_statistics(cached_stats)} :
           /\ cached_stats' = s.cached_stats
           /\ last' = [op |-> "cleanup_old_statistics", out |-> s.out]
    /\ UNCHANGED <<ratings, pstats, estats, evaluations, jweights, cache, snapshots,
                   creates, threads, filesVars>>

\* tasks.update_judge_weights(event_id): the weight of every confirmed
\* referee of the event is computed and stored, then the event's summary
\* cache is invalidated.
UpdateJudgeWeights(event_id) ==
    LET judges == {p.user : p \in {q \in EventParticipants :
                       q.event = event_id /\ q.role = "referee" /\ q.is_confirmed}}
    IN  /\ \E w \in [judges -> UNION {calculate_judge_weight(evaluations, j, event_id) :
                                            j \in judges}] :
               /\ \A j \in judges : w[j] \in calculate_judge_weight(evaluations, j, event_id)
               /\ jweights' = [ k \in DOMAIN jweights \cup {<<event_id, j>> : j \in judges} |->
                                  IF k[1] = event_id /\ k[2] \in judges
                                  THEN w[k[2]] ELSE jweights[k] ]
        /\ \E s \in {invalidate_cache(cache, cached_stats, Some(event_id),
                                       Some("event_summary"))} :
               /\ cache' = s.cache
               /\ cached_stats' = s.cached_stats
        /\ last' = [ op |-> "update_judge_weights",
                     out |-> Return([ status |-> "success",
                                      updated_judges |-> Cardinality(judges) ]) ]
        /\ UNCHANGED <<ratings, pstats, estats, evaluations, snapshots,
                       creates, threads, filesVars>>

\* Time passes: an hour ends the life of every cache entry (the timeouts are
\* 5 minutes to 1 hour), a day also that of every CachedStatistic row (24
\* hours), a month also puts every row before the cutoff of the cleanup.
Elapse(d) ==
    /\ cache' = Without(cache, DOMAIN cache)
    /\ cached_stats' =
           [ k \in DOMAIN cached_stats |->
               [ cached_stats[k] EXCEPT
                   !.expired = @ \/ d \in {"day", "month"},
                   !.old = @ \/ d = "month" ] ]
    /\ last' = [op |-> "elapse"]
    /\ UNCHANGED <<ratings, pstats, estats, evaluations, jweights, snapshots,
                   creates, threads, filesVars>>

\* POST rate-participant/ by request.user with data the serializer accepted:
\* perform_create looks up the referee named in the data, then saves.
PostRateParticipant(user, r) ==
    /\ BagCardinality(ratings) < MaxRatings
    /\ IF user = None
       THEN /\ last' \in NotAuthenticated("rate-participant", user, r.event)
            /\ UNCHANGED <<ratings, pstats, estats>>
       ELSE IF RefereeParticipation(r.event, r.referee)
       THEN /\ \E s \in {save(ratings, pstats, estats, r)} :
                  /\ ratings' = s.ratings
                  /\ pstats' = s.pstats
                  /\ estats' = s.estats
            /\ last' = Response("rate-participant", user, r.event, 201, TRUE, TRUE)
       ELSE /\ UNCHANGED <<ratings, pstats, estats>>
            /\ last' = Response("rate-participant", user, r.event, 403, FALSE, FALSE)
    /\ UNCHANGED <<judgedVars, creates, threads, filesVars>>

\* GET event/<event_id>/statistics/: EventStatisticsDetailView retrieves the
\* stored row, 404 when there is none.
GetEventStatistics(user, event) ==
    /\ last' \in IF user = None
                  THEN NotAuthenticated("statistics", user, event)
                  ELSE { Response("statistics", user, event,
                                  IF event \in DOMAIN estats THEN 200 ELSE 404,
                                  FALSE, FALSE) }
    /\ UNCHANGED <<ratings, pstats, estats, judgedVars, creates, threads, filesVars>>

\* GET event/<event_id>/calculate-statistics/: the owner of the event or
\* staff recomputes the statistics of the event.
CalculateEventStatistics(user, event) ==
    /\ IF user = None
       THEN /\ last' \in NotAuthenticated("calculate-statistics", user, event)
            /\ UNCHANGED <<pstats, estats>>
       ELSE IF Val(user) # EventOwner(event) /\ Val(user) \notin StaffUsers
       THEN /\ UNCHANGED <<pstats, estats>>
            /\ last' = Response("calculate-statistics", user, event, 403, FALSE, FALSE)
       ELSE /\ \E s \in {calculate_for_event(ratings, pstats, estats, event)} :
                  /\ pstats' = s.pstats
                  /\ estats' = s.estats
            /\ last' = Response("calculate-statistics", user, event, 200, FALSE, TRUE)
    /\ UNCHANGED <<ratings, judgedVars, creates, threads, filesVars>>

\* GET event/<event_id>/leaderboard/: the role check, then the Avg of the
\* five-point scores of each participant.
GetEventLeaderboard(user, event) ==
    /\ last' \in RoleCheckedGet("leaderboard", user, event, TRUE)
    /\ UNCHANGED <<ratings, pstats, estats, judgedVars, creates, threads, filesVars>>

\* GET event/<event_id>/participants/statistics/: the role check, then the
\* stored rows of the participants of the event.
GetEventParticipantStatistics(user, event) ==
    /\ last' \in RoleCheckedGet("participants-statistics", user, event, FALSE)
    /\ UNCHANGED <<ratings, pstats, estats, judgedVars, creates, threads, filesVars>>

\* GET session/online/<session_id>/statistics/: the role check on the event
\* of the session, then calculate_for_session.
GetOnlineSessionStatistics(user, session_id) ==
    /\ last' \in RoleCheckedGet("online-session-statistics", user,
                                 OnlineSession(session_id).event, TRUE)
    /\ UNCHANGED <<ratings, pstats, estats, judgedVars, creates, threads, filesVars>>

\* GET session/offline/<session_id>/statistics/
GetOfflineSessionStatistics(user, session_id) ==
    /\ last' \in RoleCheckedGet("offline-session-statistics", user,
                                 OfflineSession(session_id).event, TRUE)
    /\ UNCHANGED <<ratings, pstats, estats, judgedVars, creates, threads, filesVars>>

\* GET event/<event_id>/participant/<participant_id>/final-score/: 404 when
\* the participant is not of the event, then the role check, then
\* get_or_create and calculate_for_participant.
GetParticipantFinalScore(user, event, participant_id) ==
    /\ IF user = None
       THEN /\ last' \in NotAuthenticated("final-score", user, event)
            /\ UNCHANGED pstats
       ELSE IF Participant(participant_id).event # event
       THEN /\ UNCHANGED pstats
            /\ last' = Response("final-score", user, event, 404, FALSE, FALSE)
       ELSE IF ~RoleAllowed(event, Val(user))
       THEN /\ UNCHANGED pstats
            /\ last' = Response("final-score", user, event, 403, FALSE, FALSE)
       ELSE /\ pstats' = calculate_for_participant(ratings, pstats, event, participant_id)
            /\ last' = Response("final-score", user, event, 200, FALSE, TRUE)
    /\ UNCHANGED <<ratings, estats, judgedVars, creates, threads, filesVars>>

\* A process starts a create: rating = EventRating(...); rating.full_clean().
\* The uniqueness query of clean() reads the table as it is now; no lock is
\* taken and no transaction is opened.
BeginCreate(p, r) ==
    /\ creates[p].pc # "validated"
    /\ BagCardinality(ratings) + Cardinality({q \in Processes : creates[q].pc = "validated"})
           < MaxRatings
    /\ \E errors \in {full_clean(r, ratings)} :
           /\ creates' = [creates EXCEPT ![p] = IF errors = {}
                                                THEN [pc |-> "validated", rating |-> r]
                                                ELSE [pc |-> "idle"]]
           /\ last' = [op |-> "full_clean", rating |-> r, errors |-> errors]
    /\ UNCHANGED <<ratings, pstats, estats, judgedVars, threads, filesVars>>

\* The process goes on to rating.save() of the row it validated.
FinishCreate(p) ==
    /\ creates[p].pc = "validated"
    /\ \E s \in {save(ratings, pstats, estats, creates[p].rating)} :
           /\ ratings' = s.ratings
           /\ pstats' = s.pstats
           /\ estats' = s.estats
    /\ creates' = [creates EXCEPT ![p] = [pc |-> "saved", rating |-> creates[p].rating]]
    /\ last' = [op |-> "save"]
    /\ UNCHANGED <<judgedVars, threads, filesVars>>

\* A process starts EventRating.save() of a new row: super().save() inserts
\* it (and post_save is sent).
WriteInsert(p, r) ==
    /\ creates[p].pc \in {"idle", "done"}
    /\ BagCardinality(ratings) < MaxRatings
    /\ ratings' = ratings (+) SetToBag({r})
    /\ \E s \in {SendSignal(ratings (+) SetToBag({r}), pstats, estats, r)} :
           /\ pstats' = s.pstats
           /\ estats' = s.estats
    /\ creates' = [creates EXCEPT ![p] = [pc |-> "inserted", rating |-> r]]
    /\ last' = [op |-> "insert"]
    /\ UNCHANGED <<judgedVars, threads, filesVars>>

\* save() goes on: calculate_for_participant(self.event, self.participant).
WriteParticipant(p) ==
    /\ creates[p].pc = "inserted"
    /\ pstats' = calculate_for_participant(ratings, pstats, creates[p].rating.event,
                                           creates[p].rating.participant)
    /\ creates' = [creates EXCEPT ![p].pc = "participant"]
    /\ last' = [op |-> "calculate_for_participant"]
    /\ UNCHANGED <<ratings, estats, judgedVars, threads, filesVars>>

\* save() enters calculate_for_event: ratings.exists() and ratings.count()
\* read the table. Without ratings the zero row is stored at once.
RecomputeCount(p) ==
    /\ creates[p].pc = "participant"
    /\ LET event == creates[p].rating.event
           rs    == FilterBag(ratings, {r \in BagToSet(ratings) : r.event = event})
       IN  IF BagCardinality(rs) = 0
           THEN /\ estats' = (event :> EventStatisticsZero) @@ estats
                /\ creates' = [creates EXCEPT ![p].pc = "done"]
           ELSE /\ UNCHANGED estats
                /\ creates' = [creates EXCEPT ![p] =
                                  [ pc |-> "counted", rating |-> creates[p].rating,
                                    total_ratings |-> BagCardinality(rs) ]]
    /\ last' = [op |-> "count"]
    /\ UNCHANGED <<ratings, pstats, judgedVars, threads, filesVars>>

\* calculate_for_event goes on: the statistics of every participant are
\* recomputed, then the participant rows and the ratings are read and the
\* figures computed, with the count taken before.
RecomputeRead(p) ==
    /\ creates[p].pc = "counted"
    /\ LET event == creates[p].rating.event
           rs    == FilterBag(ratings, {r \in BagToSet(ratings) : r.event = event})
       IN  \E PS1 \in {RecomputeParticipants(ratings, pstats, event)} :
               /\ pstats' = PS1
               /\ creates' = [creates EXCEPT ![p] =
                                 [ pc |-> "computed", rating |-> creates[p].rating,
                                   total_ratings |-> creates[p].total_ratings,
                                   stats |-> ObservedEventStatisticsRow(
                                                 creates[p].total_ratings, rs, PS1, event) ]]
    /\ last' = [op |-> "read"]
    /\ UNCHANGED <<ratings, estats, judgedVars, threads, filesVars>>

\* calculate_for_event ends: get_or_create and stats.save() store the
\* figures computed.
RecomputeSave(p) ==
    /\ creates[p].pc = "computed"
    /\ estats' = (creates[p].rating.event :> creates[p].stats) @@ estats
    /\ creates' = [creates EXCEPT ![p] = [pc |-> "done", rating |-> creates[p].rating]]
    /\ last' = [op |-> "save"]
    /\ UNCHANGED <<ratings, pstats, judgedVars, threads, filesVars>>

\* EventStatistics.calculate_for_session(session): a read-only computation.
CalculateForSession(kind, session_id) ==
    /\ last' = [ op |-> "calculate_for_session", kind |-> kind, session |-> session_id,
                 out |-> calculate_for_session(ratings, kind, session_id) ]
    /\ UNCHANGED <<ratings, pstats, estats, judgedVars, creates, threads, filesVars>>

\* JudgeWeightSerializer(data).is_valid() and save(): the JudgeWeight row of
\* the judge in the event is written when validate accepts the data.
SaveJudgeWeight(event, judge, weight) ==
    /\ \E err \in {JudgeWeightValidate(event, judge, weight)} :
           /\ jweights' = IF err = "" THEN (<<event, judge>> :> weight) @@ jweights
                                      ELSE jweights
           /\ last' = [ op |-> "save_judge_weight", event |-> event, judge |-> judge,
                        weight |-> weight, error |-> err ]
    /\ UNCHANGED <<ratings, pstats, estats, evaluations, cache, cached_stats, snapshots,
                   creates, threads, filesVars>>

\* tasks.process_new_evaluation(evaluation_id), called directly.
ProcessNewEvaluation(evaluation) ==
    /\ \E s \in process_new_evaluation(evaluations, jweights, cache, cached_stats,
                                        evaluation) :
           /\ jweights' = s.jweights
           /\ cache' = s.cache
           /\ cached_stats' = s.cached_stats
           /\ last' = [ op |-> "process_new_evaluation", evaluation |-> evaluation,
                        out |-> s.out, logged |-> s.logged ]
    /\ UNCHANGED <<ratings, pstats, estats, evaluations, snapshots, creates, threads,
                   filesVars>>

\* tasks.process_new_evaluation_async(evaluation_id): the thread is started
\* and the call returns.
ProcessNewEvaluationAsync(evaluation) ==
    /\ evaluation \notin threads
    /\ threads' = threads \cup {evaluation}
    /\ last' = [ op |-> "process_new_evaluation_async", evaluation |-> evaluation,
                 out |-> [status |-> "queued"] ]
    /\ UNCHANGED <<ratings, pstats, estats, judgedVars, creates, filesVars>>

\* background_task of a started thread: after its delay it runs
\* process_new_evaluation.
BackgroundTask(evaluation) ==
    /\ evaluation \in threads
    /\ threads' = threads \ {evaluation}
    /\ \E s \in process_new_evaluation(evaluations, jweights, cache, cached_stats,
                                        evaluation) :
           /\ jweights' = s.jweights
           /\ cache' = s.cache
           /\ cached_stats' = s.cached_stats
           /\ last' = [ op |-> "background_task", evaluation |-> evaluation,
                        out |-> s.out, logged |-> s.logged ]
    /\ UNCHANGED <<ratings, pstats, estats, evaluations, snapshots, creates, filesVars>>

\* POST files/<pk>/create_share_link/ with data the serializer accepted.
CreateShareLink(token, max_downloads, expires_at) ==
    /\ token \notin DOMAIN share_links
    /\ share_links' = (token :> NewShareLink(max_downloads, expires_at)) @@ share_links
    /\ last' = [op |-> "create_share_link", token |-> token, status |-> 201]
    /\ UNCHANGED <<ratings, pstats, estats, judgedVars, creates, threads, downloads, clock>>

\* PATCH share-links/<token>/ by the creator of the link with a new
\* max_downloads: the serializer sets the field and saves the row.
UpdateShareLink(token, max_downloads) ==
    /\ token \in DOMAIN share_links
    /\ share_links' = [share_links EXCEPT ![token].max_downloads = max_downloads]
    /\ last' = [op |-> "update_share_link", token |-> token, status |-> 200]
    /\ UNCHANGED <<ratings, pstats, estats, judgedVars, creates, threads, downloads, clock>>

\* POST share-links/<token>/disable/ and enable/
SetShareLinkActive(token, is_active) ==
    /\ token \in DOMAIN share_links
    /\ share_links' = [share_links EXCEPT ![token].is_active = is_active]
    /\ last' = [ op |-> IF is_active THEN "enable" ELSE "disable", token |-> token,
                 status |-> 200 ]
    /\ UNCHANGED <<ratings, pstats, estats, judgedVars, creates, threads, downloads, clock>>

\* Time passes the expiry time of the links that have one.
Tick ==
    /\ clock = 0
    /\ clock' = 1
    /\ last' = [op |-> "tick"]
    /\ UNCHANGED <<ratings, pstats, estats, judgedVars, creates, threads, share_links,
                   downloads>>

\* GET share/<token>/ up to the validity check: the row is read; 404 without
\* a row, 403 when the link is not valid, else the request goes on with the
\* row it read.
BeginDownload(p, token) ==
    /\ downloads[p].pc = "idle"
    /\ IF token \notin DOMAIN share_links
       THEN /\ last' = [op |-> "download_shared_file", token |-> token, status |-> 404]
            /\ UNCHANGED downloads
       ELSE IF ~is_valid(share_links[token], clock)
       THEN /\ last' = [op |-> "download_shared_file", token |-> token, status |-> 403]
            /\ UNCHANGED downloads
       ELSE /\ share_links[token].download_count < MaxDownloads
            /\ downloads' = [downloads EXCEPT ![p] =
                   [pc |-> "checked", token |-> token, share_link |-> share_links[token]]]
            /\ last' = [op |-> "get_object_or_404", token |-> token, status |-> 200]
    /\ UNCHANGED <<ratings, pstats, estats, judgedVars, creates, threads, share_links, clock>>

\* GET share/<token>/ from the increment on: download_count of the row read
\* is raised by one, save() writes every field of that row, the file is sent.
FinishDownload(p) ==
    /\ downloads[p].pc = "checked"
    /\ share_links' =
           (downloads[p].token :>
                [downloads[p].share_link EXCEPT !.download_count = @ + 1]) @@ share_links
    /\ downloads' = [downloads EXCEPT ![p] = [pc |-> "idle"]]
    /\ last' = [op |-> "download_shared_file", token |-> downloads[p].token, status |-> 200]
    /\ UNCHANGED <<ratings, pstats, estats, judgedVars, creates, threads, clock>>

\* Rating writes of event 1 and the statistics they trigger.
Next ==
    \/ \E r \in SaveInputs : Save(r)
    \/ \E r \in SaveInputs : Delete(r)
    \/ \E r \in RateInputs : RateParticipant(r)

Spec == Init /\ [][Next]_vars

\* Validation of a new rating against a store of valid ratings.
NextClean ==
    \/ \E r \in SeedInputs : Save(r)
    \/ \E r \in CleanInputs : FullClean(r)

SpecClean == Init /\ [][NextClean]_vars

\* Rating writes over three participant rows and the event statistics.
NextEvent ==
    \/ \E r \in EventInputs : Save(r)
    \/ \E r \in EventInputs : Delete(r)

SpecEvent == Init /\ [][NextEvent]_vars

\* Evaluations of the judged-work track and the weight of a judge.
NextWeight ==
    \/ \E e \in EvaluationInputs : CreateEvaluation(e)
    \/ \E j \in {3, 4}, ev \in Events : CalculateJudgeWeight(j, ev)

SpecWeight == Init /\ [][NextWeight]_vars

\* The judged-work service and its tasks over a few evaluations.
NextService ==
    \/ \E e \in ServiceEvaluationInputs : CreateEvaluation(e)
    \/ \E p \in ProjectWorks : CalculateForProject(p)
    \/ \E ev \in EventIds, f \in BOOLEAN : GetEventSummary(ev, f)
    \/ GetLeaderboard(1, 20)
    \/ \E u \in {1, 3, 5} : GetParticipantStatistics(u, 1)
    \/ \E ev \in EventIds : TakeSnapshot(ev)
    \/ \E ev \in {None, Some(1), Some(3)}, t \in {None, Some("event_summary")} :
           InvalidateCache(ev, t)
    \/ UpdateJudgeWeights(1)
    \/ DailyStatisticsSnapshot
    \/ CleanupOldStatistics
    \/ \E d \in {"hour", "day", "month"} : Elapse(d)

SpecService == Init /\ [][NextService]_vars

\* The endpoints under requests of every kind of caller.
NextViews ==
    \/ \E u \in Requesters, r \in RateInputs : PostRateParticipant(u, r)
    \/ \E u \in Requesters, ev \in Events : GetEventStatistics(u, ev)
    \/ \E u \in Requesters, ev \in Events : CalculateEventStatistics(u, ev)
    \/ \E u \in Requesters, ev \in Events : GetEventLeaderboard(u, ev)
    \/ \E u \in Requesters, ev \in Events : GetEventParticipantStatistics(u, ev)
    \/ \E u \in Requesters, ev \in Events, p \in {1, 5} :
           GetParticipantFinalScore(u, ev, p)
    \/ \E u \in Requesters, sid \in {1, 3} : GetOnlineSessionStatistics(u, sid)
    \/ \E u \in Requesters : GetOfflineSessionStatistics(u, 1)

SpecViews == Init /\ [][NextViews]_vars

\* Validated creates of ratings by processes that run at the same time.
NextCreate ==
    \/ \E p \in Processes, r \in CreateInputs : BeginCreate(p, r)
    \/ \E p \in Processes : FinishCreate(p)

SpecCreate == Init /\ [][NextCreate]_vars

\* Rating writes by processes whose recomputations interleave.
NextRecompute ==
    \/ \E p \in Processes, r \in WriteInputs : WriteInsert(p, r)
    \/ \E p \in Processes : WriteParticipant(p)
    \/ \E p \in Processes : RecomputeCount(p)
    \/ \E p \in Processes : RecomputeRead(p)
    \/ \E p \in Processes : RecomputeSave(p)

SpecRecompute == Init /\ [][NextRecompute]_vars

\* Ratings of sessions and the statistics of a session.
NextSession ==
    \/ \E r \in SessionInputs : Save(r)
    \/ \E c \in SessionCalls : CalculateForSession(c[1], c[2])

SpecSession == Init /\ [][NextSession]_vars

\* The weighted average of a project under stored and default judge weights.
NextProject ==
    \/ \E e \in ProjectEvaluationInputs : CreateEvaluation(e)
    \/ \E j \in {3, 4}, w \in WeightInputs : SaveJudgeWeight(1, j, w)
    \/ \E p \in ProjectWorks : CalculateForProject(p)
    \/ \E j \in {3, 4} : CalculateJudgeWeight(j, 1)

SpecProject == Init /\ [][NextProject]_vars

\* The processing of new evaluations, directly and in a background thread.
NextTasks ==
    \/ \E e \in TaskEvaluationInputs : CreateEvaluation(e)
    \/ \E e \in TaskEvaluationInputs : ProcessNewEvaluation(e)
    \/ \E e \in TaskEvaluationInputs : ProcessNewEvaluationAsync(e)
    \/ \E e \in TaskEvaluationInputs : BackgroundTask(e)
    \/ \E f \in BOOLEAN : GetEventSummary(1, f)

SpecTasks == Init /\ [][NextTasks]_vars

\* Share links and downloads through them by processes that run at the same
\* time.
NextFiles ==
    \/ \E t \in Tokens, m \in MaxDownloadsInputs, x \in ExpiresAtInputs :
           CreateShareLink(t, m, x)
    \/ \E t \in Tokens, m \in MaxDownloadsInputs : UpdateShareLink(t, m)
    \/ \E t \in Tokens, a \in BOOLEAN : SetShareLinkActive(t, a)
    \/ Tick
    \/ \E p \in Processes, t \in Tokens \cup {MissingToken} : BeginDownload(p, t)
    \/ \E p \in Processes : FinishDownload(p)

SpecFiles == Init /\ [][NextFiles]_vars

\* Validation of the session pair, the grading system and the score.
NextFields ==
    \/ \E r \in FieldSeedInputs : Save(r)
    \/ \E r \in FieldInputs : FullClean(r)

SpecFields == Init /\ [][NextFields]_vars

(***************************************************************************)
(* Properties                                                              *)
(***************************************************************************)
\* The last operation stored a rating.
Written == last.op = "save" \/ (last.op = "rate" /\ last.status = 201)

\* The stored row of (event, participant) is the one calculate_for_participant
\* would store now.
ParticipantStatisticsCurrent(event, participant) ==
    ParticipantRow(pstats, <<event, participant>>)
        = ParticipantStatisticsRow(ratings, pstats, event, participant)

\* The stored statistics of the event and of each of its participants are the
\* ones calculate_for_event / calculate_for_participant would store now.
StatisticsCurrent(event) ==
    /\ event \in DOMAIN estats
    /\ estats[event] = calculate_for_event(ratings, pstats, estats, event).estats[event]
    /\ \A p \in {q \in EventParticipants : q.event = event} :
          /\ <<event, p.id>> \in DOMAIN pstats
          /\ ParticipantStatisticsCurrent(event, p.id)

\* The ratings of a participant in an event, and the five_point ones.
RatingsOf(R, event, participant) ==
    FilterBag(R, {r \in BagToSet(R) : r.event = event /\ r.participant = participant})

FivePointOf(R, event, participant) ==
    FilterBag(R, {r \in BagToSet(R) : /\ r.event = event
                                      /\ r.participant = participant
                                      /\ r.grading_system = "five_point"})

\* C1: after every successful rating create or delete the stored participant
\* and event statistics are the ones a recomputation from the rating rows
\* that exist now would produce.
C1_StatisticsFollowEveryWrite ==
    (Written \/ last.op = "delete") => StatisticsCurrent(1)

\* C2: deleting a rating, from statistics that are up to date, lowers
\* total_ratings_given by exactly 1, and when it was the participant's only
\* five_point rating makes the final_score null and lowers
\* total_participants_rated by 1.
C2_DeleteRecomputes ==
    [][ \A r \in SaveInputs :
          ( /\ BagIn(r, ratings)
            /\ last'.op = "delete"
            /\ ratings' = ratings (-) SetToBag({r})
            /\ StatisticsCurrent(r.event) )
          => /\ estats'[r.event].total_ratings_given
                  = estats[r.event].total_ratings_given - 1
             /\ ( /\ r.grading_system = "five_point"
                  /\ BagCardinality(FivePointOf(ratings, r.event, r.participant)) = 1 )
                => /\ pstats'[<<r.event, r.participant>>].final_score = None
                   /\ estats'[r.event].total_participants_rated
                        = estats[r.event].total_participants_rated - 1
      ]_vars

\* C3: after a write, the final_score of every participant with five_point
\* ratings is the ceiling of the mean of those scores over all scopes
\* together: the integer f with f - 1 < mean <= f.
C3_FinalScoreIsCeilingOfPooledMean ==
    Written =>
        \A p \in {1, 2} :
            LET five == FivePointOf(ratings, 1, p)
                n    == BagCardinality(five)
                sum  == SumScores(five)
                row  == pstats[<<1, p>>]
            IN  n > 0 =>
                  /\ row.final_score # None
                  /\ n * (Val(row.final_score) - 1) < sum
                  /\ sum <= n * Val(row.final_score)

\* Participant 1 holds a five_point rating in the bare event, in an online
\* and in an offline session, their mean is no integer, and the stored
\* final_score is the next integer above it.
C3_Witness ==
    /\ last.op = "save"
    /\ \A sc \in SaveScopes :
          \E r \in BagToSet(FivePointOf(ratings, 1, 1)) :
              r.online_session = sc[1] /\ r.offline_session = sc[2]
    /\ SumScores(FivePointOf(ratings, 1, 1)) = 13
    /\ BagCardinality(FivePointOf(ratings, 1, 1)) = 3
    /\ pstats[<<1, 1>>].final_score = Some(5)

C7_OnlyValidatedRatingsStored ==
    \A r \in BagToSet(ratings) :
        full_clean(r, ratings (-) SetToBag({r})) = {}

\* Two ratings are of the same referee and participant.
SamePair(a, b) == a.participant = b.participant /\ a.referee = b.referee

\* Two ratings have the same scope: the same online session, the same
\* offline session, or the bare event both.
SameScope(a, b) ==
    /\ a.event = b.event
    /\ a.online_session = b.online_session
    /\ a.offline_session = b.offline_session

\* The user is a confirmed participant of the event with role referee.
ConfirmedReferee(event, user) ==
    \E p \in EventParticipants :
        p.event = event /\ p.user = user /\ p.role = "referee" /\ p.is_confirmed

\* The rating meets every requirement of the data model but the uniqueness
\* one: a confirmed referee who is not the rated user, a participant of the
\* event, at most one session and that of the event, a score in range.
ValidButForUniqueness(r) ==
    /\ ConfirmedReferee(r.event, r.referee)
    /\ Participant(r.participant).event = r.event
    /\ Participant(r.participant).user # r.referee
    /\ r.online_session = None \/ r.offline_session = None
    /\ r.online_session # None => OnlineSession(Val(r.online_session)).event = r.event
    /\ r.offline_session # None => OfflineSession(Val(r.offline_session)).event = r.event
    /\ r.grading_system = "five_point" => r.score \in 1 .. 5
    /\ r.grading_system = "pass_fail" => r.score \in {0, 1}

\* C5: validation of a new rating fails when a rating of the same referee
\* and participant is stored in the same scope, and succeeds for an otherwise
\* valid session rating when the pair is rated in other sessions of the
\* event only.
C5_UniquePerScope ==
    last.op = "full_clean" =>
        LET r == last.rating
        IN  /\ (\E x \in BagToSet(ratings) : SamePair(x, r) /\ SameScope(x, r))
                  => last.errors # {}
            /\ ( /\ ValidButForUniqueness(r)
                 /\ r.online_session # None \/ r.offline_session # None
                 /\ \E x \in BagToSet(ratings) :
                       /\ SamePair(x, r) /\ x.event = r.event
                       /\ x.online_session # None \/ x.offline_session # None
                 /\ ~\E x \in BagToSet(ratings) : SamePair(x, r) /\ SameScope(x, r) )
                  => last.errors = {}

\* A rating of online session 2 passes while the same referee has rated the
\* same participant in online session 1 of the event.
C5_Witness ==
    /\ last.op = "full_clean"
    /\ last.errors = {}
    /\ last.rating.online_session = Some(2)
    /\ \E x \in BagToSet(ratings) :
          SamePair(x, last.rating) /\ x.online_session = Some(1) /\ x.event = 1

\* C6: an otherwise valid bare-event rating passes validation unless a
\* bare-event rating of the same referee and participant is stored: ratings
\* of the pair in sessions of the event do not count against it.
C6_BareEventIsAScopeOfItsOwn ==
    ( /\ last.op = "full_clean"
      /\ last.rating.online_session = None
      /\ last.rating.offline_session = None
      /\ ValidButForUniqueness(last.rating)
      /\ ~\E x \in BagToSet(ratings) :
            SamePair(x, last.rating) /\ SameScope(x, last.rating) )
    => last.errors = {}

\* C8: validation reports the referee field for every rating whose referee
\* is not a confirmed referee-role participant of the event.
C8_RefereeMustBeConfirmed ==
    (last.op = "full_clean" /\ ~ConfirmedReferee(last.rating.event, last.rating.referee))
        => "referee" \in last.errors

\* C9: validation rejects every rating whose participant row is of another
\* event than the rating.
C9_ParticipantOfTheEvent ==
    ( /\ last.op = "full_clean"
      /\ Participant(last.rating.participant).event # last.rating.event )
    => last.errors # {}

\* C10: validation rejects every rating whose participant row is the
\* referee's own.
C10_NoSelfRating ==
    ( /\ last.op = "full_clean"
      /\ Participant(last.rating.participant).user = last.rating.referee )
    => last.errors # {}

\* C11: validation of a rating that names both an online and an offline
\* session fails, whatever its event, participant, referee, grading system
\* and score, and whatever is stored.
C11_BothSessionsNeverValid ==
    ( /\ last.op = "full_clean"
      /\ last.rating.online_session # None
      /\ last.rating.offline_session # None )
    => last.errors # {}

\* A rating of event 1 by its referee with a score in range, naming online
\* session 1 and offline session 1 (both of event 1), is rejected on both
\* session fields.
C11_Witness ==
    /\ last.op = "full_clean"
    /\ last.rating = Rating(1, Some(1), Some(1), 2, 3, "five_point", 5)
    /\ last.errors = {"online_session", "offline_session"}

\* The rating meets every requirement the validation tests before the score:
\* a referee of the event, at most one session and that of the event, no
\* rating of the pair stored in the event.
ValidButForScore(r, R) ==
    /\ RefereeParticipation(r.event, r.referee)
    /\ r.online_session = None \/ r.offline_session = None
    /\ r.online_session # None => OnlineSession(Val(r.online_session)).event = r.event
    /\ r.offline_session # None => OfflineSession(Val(r.offline_session)).event = r.event
    /\ ~\E x \in BagToSet(R) : SamePair(x, r) /\ x.event = r.event

PassFailOf(R, event) ==
    FilterBag(R, {r \in BagToSet(R) : r.event = event /\ r.grading_system = "pass_fail"})

\* The participant rows of an event that hold a five_point rating in it:
\* the participants that have a final_score.
Rated(R, event) ==
    {p \in {q.id : q \in {x \in EventParticipants : x.event = event}} :
        BagCardinality(FivePointOf(R, event, p)) > 0}

CeilingOfMean(R, event, participant) ==
    LET five == FivePointOf(R, event, participant)
    IN  CHOOSE f \in 0 .. 6 :
            /\ BagCardinality(five) * (f - 1) < SumScores(five)
            /\ SumScores(five) <= BagCardinality(five) * f

RECURSIVE SumCeilings(_, _, _)
SumCeilings(R, event, P) ==
    IF P = {} THEN 0
    ELSE LET p == CHOOSE x \in P : TRUE
         IN  CeilingOfMean(R, event, p) + SumCeilings(R, event, P \ {p})

ConfirmedBy(judge, event) ==
    {e \in evaluations : e.judge = judge /\ e.is_confirmed /\ Project(e.project).event = event}

PeersOf(e) ==
    {x \in evaluations : x.project = e.project /\ x.is_confirmed /\ x.judge # e.judge}

\* C15: calculate_judge_weight returns 3.0 for a judge who has confirmed
\* evaluations on projects that other judges evaluated and whose score
\* equals the mean of the others' confirmed scores on each such project, and
\* 1.0 for a judge with no confirmed evaluation in the event or with none on
\* a project another judge has a confirmed evaluation of.
C15_JudgeWeightExtremes ==
    last.op = "calculate_judge_weight" =>
        LET mine     == ConfirmedBy(last.judge, last.event)
            compared == {e \in mine : PeersOf(e) # {}}
        IN  /\ ( /\ compared # {}
                 /\ \A e \in compared :
                       e.score * Cardinality(PeersOf(e)) = SumEvaluations(PeersOf(e)) )
                  => last.weight = 300
            /\ compared = {} => last.weight = 100

\* Judge 3 gave project 1 a 6 where the two other judges gave 4 and 8: the
\* weight is 3.0.
C15_Witness ==
    /\ last.op = "calculate_judge_weight"
    /\ last.judge = 3
    /\ \E e \in ConfirmedBy(3, 1) :
          /\ e.score = 6
          /\ {x.score : x \in PeersOf(e)} = {4, 8}
    /\ last.weight = 300

\* The published projects that have no confirmed evaluation.
Unevaluated ==
    {p \in ProjectWorks : /\ p.is_published
                          /\ ~\E e \in evaluations : e.project = p.id /\ e.is_confirmed}

\* C16: with a published project that has no confirmed evaluation,
\* calculate_for_project returns a result with weighted average 0, and
\* get_event_summary, get_leaderboard and get_participant_statistics of its
\* event return without raising, the leaderboard listing the project with
\* weighted average 0.
C16_DegenerateInputNeverRaises ==
    \A p \in Unevaluated :
        /\ (last.op = "calculate_for_project" /\ last.project = p.id) =>
               /\ last.out.raised = ""
               /\ last.out.value.weighted_average = 0
        /\ ( /\ last.op \in {"get_event_summary", "get_participant_statistics"}
             /\ last.event = p.event ) =>
               last.out.raised = ""
        /\ (last.op = "get_leaderboard" /\ last.event = p.event) =>
               /\ last.out.raised = ""
               /\ \E i \in 1 .. Len(last.out.value) :
                      /\ last.out.value[i].project_id = p.id
                      /\ last.out.value[i].weighted_average = 0

\* C17: get_event_summary without force_refresh returns the cached value
\* when the cache holds one, else the data of an unexpired CachedStatistic
\* row, which it copies into the cache; otherwise, and with force_refresh, it
\* recomputes, returns the new summary and leaves it both in the cache and
\* in the CachedStatistic row.
C17_EventSummaryCacheOrder ==
    [][ last'.op = "get_event_summary" =>
          LET cache_key == <<"event_summary", last'.event>>
              db_key    == <<last'.event, "event_summary">>
          IN  IF ~last'.force_refresh /\ cache_key \in DOMAIN cache
              THEN /\ last'.out = Return(cache[cache_key])
                   /\ UNCHANGED <<cache, cached_stats>>
              ELSE IF /\ ~last'.force_refresh
                      /\ db_key \in DOMAIN cached_stats
                      /\ ~is_expired(cached_stats[db_key])
              THEN /\ last'.out = Return(cached_stats[db_key].data)
                   /\ cache' = Put(cache, cache_key, cached_stats[db_key].data)
                   /\ UNCHANGED cached_stats
              ELSE /\ last'.out.raised = ""
                   /\ cache_key \in DOMAIN cache'
                   /\ cache'[cache_key] = last'.out.value
                   /\ db_key \in DOMAIN cached_stats'
                   /\ cached_stats'[db_key].data = last'.out.value ]_vars

\* C18: every operation leaves the snapshots taken before as they were, in
\* place, and take_snapshot adds one row that holds the summary of the event
\* recomputed at that moment.
C18_SnapshotsAppendOnly ==
    [][ /\ Len(snapshots') >= Len(snapshots)
        /\ SubSeq(snapshots', 1, Len(snapshots)) = snapshots
        /\ last'.op = "take_snapshot" =>
               /\ last'.out.raised = ""
               /\ Len(snapshots') = Len(snapshots) + 1
               /\ snapshots'[Len(snapshots')].event = last'.event
               /\ Return(snapshots'[Len(snapshots')].data) =
                      calculate_event_summary(evaluations, jweights, last'.event) ]_vars

\* The caller is authenticated and is staff or has an EventParticipant row
\* of the event with role referee or owner.
Authorized(user, event) ==
    /\ user # None
    /\ \/ Val(user) \in StaffUsers
       \/ \E p \in EventParticipants :
              p.event = event /\ p.user = Val(user) /\ p.role \in {"referee", "owner"}

\* C19: a request of a caller who is not an authenticated referee or owner
\* of the event or staff is refused (403; a request without credentials may
\* get 401), stores no rating and runs no aggregation; a read request of a
\* staff user is not refused.
C19_EndpointsServeRefereeOwnerStaff ==
    last.op \in { "rate-participant", "statistics", "calculate-statistics", "leaderboard",
                  "participants-statistics", "final-score", "online-session-statistics",
                  "offline-session-statistics" } =>
        /\ ~Authorized(last.user, last.event) =>
               /\ last.status = 403 \/ (last.user = None /\ last.status = 401)
               /\ ~last.stored
               /\ ~last.aggregated
        /\ ( /\ last.user # None
             /\ Val(last.user) \in StaffUsers
             /\ last.op # "rate-participant" ) =>
               last.status # 403

\* C20: a create passes the check of clean() only when the table holds no
\* rating of its referee and participant in its scope at that moment, and
\* the save of a create that passed always stores its row, whatever was
\* stored since the check: nothing guards the insert.
C20_OnlyCleanGuardsUniqueness ==
    [][ \A p \in Processes :
          /\ (creates[p].pc # "validated" /\ creates'[p].pc = "validated") =>
                 ~ExistingRating(creates'[p].rating, ratings)
          /\ (creates[p].pc = "validated" /\ creates'[p].pc = "saved") =>
                 ratings' = ratings (+) SetToBag({creates[p].rating}) ]_vars

\* Both processes passed the check and saved: the table holds their two
\* ratings of one referee and participant in one scope.
C20_Witness ==
    /\ creates[1].pc = "saved"
    /\ creates[2].pc = "saved"
    /\ SamePair(creates[1].rating, creates[2].rating)
    /\ SameScope(creates[1].rating, creates[2].rating)
    /\ BagCardinality(FilterBag(ratings, {creates[1].rating, creates[2].rating})) = 2
    /\ BagCardinality(ratings) = 2

RECURSIVE SumCounts(_)
\* The total of the counts of a {score: count} dict.
SumCounts(counts) ==
    IF DOMAIN counts = {} THEN 0
    ELSE LET s == CHOOSE x \in DOMAIN counts : TRUE
         IN  counts[s] + SumCounts([t \in DOMAIN counts \ {s} |-> counts[t]])

RECURSIVE DistributionTotal(_)
\* The total of the counts of a session_grade_distribution.
DistributionTotal(dist) ==
    IF DOMAIN dist = {} THEN 0
    ELSE LET k == CHOOSE x \in DOMAIN dist : TRUE
         IN  SumCounts(dist[k].five_point) + SumCounts(dist[k].pass_fail)
                 + DistributionTotal([j \in DOMAIN dist \ {k} |-> dist[j]])

\* The number of ratings of the event stored.
RatingCount(event) ==
    BagCardinality(FilterBag(ratings, {r \in BagToSet(ratings) : r.event = event}))

\* C21: the EventStatistics row a recompute stores carries as
\* total_ratings_given the count it read when it started, which the ratings
\* it iterated later and the ratings stored when it ends may exceed; only a
\* recompute that no write interleaved with stores the figures of the rating
\* set of that moment.
C21_RecomputeSeesPartialRatings ==
    [][ \A p \in Processes :
          (creates[p].pc = "computed" /\ creates'[p].pc = "done") =>
              LET event == creates[p].rating.event
                  stats == estats'[event]
              IN  /\ stats.total_ratings_given = creates[p].total_ratings
                  /\ stats.total_ratings_given
                         <= DistributionTotal(stats.session_grade_distribution)
                  /\ DistributionTotal(stats.session_grade_distribution)
                         <= RatingCount(event)
                  /\ creates[p].total_ratings = RatingCount(event) =>
                         DistributionTotal(stats.session_grade_distribution)
                             = RatingCount(event) ]_vars

\* Every writer has finished; event 1 has more ratings than the stored
\* total_ratings_given, which also differs from the total of the stored
\* session_grade_distribution.
C21_Witness ==
    /\ \A p \in Processes : creates[p].pc = "done"
    /\ 1 \in DOMAIN estats
    /\ estats[1].total_ratings_given < RatingCount(1)
    /\ estats[1].total_ratings_given
           # DistributionTotal(estats[1].session_grade_distribution)

\* C22: right after a rating of the event was stored, which recomputes every
\* participant of the event, the row of each participant without five_point
\* ratings has average_score, final_score and most_popular_grades null.
C22_NoFivePointMeansNullScores ==
    Written =>
        \A p \in {q \in EventParticipants : q.event = 1} :
            BagCardinality(FivePointOf(ratings, 1, p.id)) = 0 =>
                /\ <<1, p.id>> \in DOMAIN pstats
                /\ pstats[<<1, p.id>>].average_score = None
                /\ pstats[<<1, p.id>>].final_score = None
                /\ pstats[<<1, p.id>>].most_popular_grades = None

\* The number of ratings of a session with the score, under any grading system.
OccurrencesInSession(kind, session_id, score) ==
    BagCardinality(FilterBag(SessionRatings(ratings, kind, session_id),
        {r \in BagToSet(ratings) : r.score = score}))

\* C23: most_popular_grade of calculate_for_session lists, in ascending order,
\* the scores that occur most often among all the ratings of the session,
\* five_point and pass_fail counted together, and is null for a session
\* without ratings.
C23_SessionModeOverAllRatings ==
    last.op = "calculate_for_session" =>
        LET rs     == SessionRatings(ratings, last.kind, last.session)
            scores == {r.score : r \in BagToSet(rs)}
            modal  == {s \in scores : \A t \in scores :
                          OccurrencesInSession(last.kind, last.session, t)
                              <= OccurrencesInSession(last.kind, last.session, s)}
        IN  IF BagCardinality(rs) = 0
            THEN last.out.most_popular_grade = None
            ELSE last.out.most_popular_grade = Some(SortedSeq(modal))

\* The number of ratings of a session with the grading system and the score.
RowsInSession(kind, session_id, grading_system, score) ==
    Cardinality({ <<r, i>> \in BagToSet(ratings) \X (1 .. MaxRatings + 1) :
        /\ i <= ratings[r]
        /\ IF kind = "online" THEN r.online_session = Some(session_id)
                              ELSE r.offline_session = Some(session_id)
        /\ r.grading_system = grading_system
        /\ r.score = score })

\* The number of ratings of a session with the grading system, and the sum of
\* their scores.
RowsInSessionOf(kind, session_id, grading_system) ==
    RowsInSession(kind, session_id, grading_system, 0)
        + RowsInSession(kind, session_id, grading_system, 1)
        + RowsInSession(kind, session_id, grading_system, 2)
        + RowsInSession(kind, session_id, grading_system, 3)
        + RowsInSession(kind, session_id, grading_system, 4)
        + RowsInSession(kind, session_id, grading_system, 5)

ScoreSumInSession(kind, session_id, grading_system) ==
    RowsInSession(kind, session_id, grading_system, 1)
        + 2 * RowsInSession(kind, session_id, grading_system, 2)
        + 3 * RowsInSession(kind, session_id, grading_system, 3)
        + 4 * RowsInSession(kind, session_id, grading_system, 4)
        + 5 * RowsInSession(kind, session_id, grading_system, 5)

\* C24: calculate_for_session returns the figures of the rating rows of the
\* session: the number of rows, the number of distinct participants, per
\* grade the number of five_point rows, the numbers of pass_fail rows with
\* score 1 and 0, and the mean of the five_point scores (null without any);
\* the call changes no stored row.
C24_SessionFiguresFromRatings ==
    [][ last'.op = "calculate_for_session" =>
          LET k   == last'.kind
              sid == last'.session
              out == last'.out
              n5  == RowsInSessionOf(k, sid, "five_point")
          IN  /\ UNCHANGED <<ratings, pstats, estats>>
              /\ out.total_ratings_given =
                     n5 + RowsInSessionOf(k, sid, "pass_fail")
              /\ out.total_participants_rated =
                     Cardinality({ r.participant : r \in {x \in BagToSet(ratings) :
                         IF k = "online" THEN x.online_session = Some(sid)
                                         ELSE x.offline_session = Some(sid)} })
              /\ out.count_grade_1 = RowsInSession(k, sid, "five_point", 1)
              /\ out.count_grade_2 = RowsInSession(k, sid, "five_point", 2)
              /\ out.count_grade_3 = RowsInSession(k, sid, "five_point", 3)
              /\ out.count_grade_4 = RowsInSession(k, sid, "five_point", 4)
              /\ out.count_grade_5 = RowsInSession(k, sid, "five_point", 5)
              /\ out.count_pass = RowsInSession(k, sid, "pass_fail", 1)
              /\ out.count_fail = RowsInSession(k, sid, "pass_fail", 0)
              /\ IF n5 = 0
                 THEN out.average_score = None
                 ELSE /\ out.average_score # None
                      /\ Val(out.average_score)[1] * n5 =
                             ScoreSumInSession(k, sid, "five_point")
                                 * Val(out.average_score)[2] ]_vars

\* The statistics of online session 1 were computed over a five_point and a
\* pass_fail rating of two participants, with a rating of another session
\* stored too.
C24_Witness ==
    /\ last.op = "calculate_for_session"
    /\ last.kind = "online"
    /\ last.session = 1
    /\ last.out.total_ratings_given = 2
    /\ last.out.total_participants_rated = 2
    /\ last.out.count_pass = 1
    /\ last.out.average_score # None
    /\ BagCardinality(ratings) = 3

\* The confirmed evaluation of a judge on a criterion of a project, as a set
\* (one row at most).
ConfirmedOn(project, criteria, judge) ==
    {e \in evaluations : /\ e.project = project
                         /\ e.criteria = criteria
                         /\ e.judge = judge
                         /\ e.is_confirmed}

\* The stored weight of a judge in an event, 1.0 without a row.
StoredWeight(event, judge) ==
    IF <<event, judge>> \in DOMAIN jweights THEN jweights[<<event, judge>>] ELSE 100

\* The score and the weight a judge contributes to a criterion of a project.
ScoreOf(project, criteria, judge) ==
    IF ConfirmedOn(project, criteria, judge) = {} THEN 0
    ELSE (CHOOSE e \in ConfirmedOn(project, criteria, judge) : TRUE).score

WeightOn(project, criteria, judge) ==
    IF ConfirmedOn(project, criteria, judge) = {} THEN 0
    ELSE StoredWeight(Project(project).event, judge)

RowsOn(project, criteria) ==
    Cardinality({j \in {3, 4, 5} : ConfirmedOn(project, criteria, j) # {}})

\* Over the judges 3, 4 and 5: sum(score x judge_weight), sum(judge_weight)
\* and sum(score) of a criterion of a project.
WeightedScoreSum(project, criteria) ==
    ScoreOf(project, criteria, 3) * WeightOn(project, criteria, 3)
        + ScoreOf(project, criteria, 4) * WeightOn(project, criteria, 4)
        + ScoreOf(project, criteria, 5) * WeightOn(project, criteria, 5)

WeightSum(project, criteria) ==
    WeightOn(project, criteria, 3) + WeightOn(project, criteria, 4)
        + WeightOn(project, criteria, 5)

ScoreSum(project, criteria) ==
    ScoreOf(project, criteria, 3) + ScoreOf(project, criteria, 4)
        + ScoreOf(project, criteria, 5)

\* The average of a criterion the claim describes, as numerator and
\* denominator; 0 / 1 for a criterion without confirmed evaluations.
ClaimedNum(project, criteria) ==
    IF RowsOn(project, criteria) = 0 THEN 0
    ELSE IF WeightSum(project, criteria) > 0 THEN WeightedScoreSum(project, criteria)
    ELSE ScoreSum(project, criteria)

ClaimedDen(project, criteria) ==
    IF RowsOn(project, criteria) = 0 THEN 1
    ELSE IF WeightSum(project, criteria) > 0 THEN WeightSum(project, criteria)
    ELSE RowsOn(project, criteria)

\* The sum of the weights (1, 3 and 0) of the criteria 1, 2 and 3 that have
\* confirmed evaluations of the project.
ClaimedWeightSum(project) ==
    (IF RowsOn(project, 1) > 0 THEN 1 ELSE 0) + (IF RowsOn(project, 2) > 0 THEN 3 ELSE 0)

\* a / b is x hundredths when rounded to two places.
IsHundredths(x, a, b) ==
    /\ 2 * (x * b - 100 * a) <= b
    /\ 2 * (100 * a - x * b) <= b

\* C25: for a project with confirmed evaluations, to two decimal places:
\* each criterion's weighted_average is sum(score x judge_weight) /
\* sum(judge_weight) with the stored weight or 1.0, the plain mean when the
\* weights sum to zero; final_weighted_average is sum(criterion average x
\* criterion weight) / sum(criterion weight), 0 when the criterion weights
\* sum to zero; with one positive weight for all judges of a criterion its
\* weighted_average is its raw_average.
C25_WeightedAverageOfProject ==
    ( /\ last.op = "calculate_for_project"
      /\ \E e \in evaluations : e.project = last.project /\ e.is_confirmed )
    => LET p   == last.project
           out == last.out.value
           C   == {c \in {1, 2, 3} : RowsOn(p, c) > 0}
       IN  /\ DOMAIN out.criteria_details = C
           /\ \A c \in C :
                 /\ IsHundredths(out.criteria_details[c].weighted_average,
                                 ClaimedNum(p, c), ClaimedDen(p, c))
                 /\ IsHundredths(out.criteria_details[c].raw_average,
                                 ScoreSum(p, c), RowsOn(p, c))
                 /\ ( \E w \in 1 .. 300 : \A j \in {3, 4, 5} :
                          ConfirmedOn(p, c, j) # {} => WeightOn(p, c, j) = w )
                    => out.criteria_details[c].weighted_average =
                           out.criteria_details[c].raw_average
           /\ IF ClaimedWeightSum(p) = 0
              THEN out.final_weighted_average = 0
              ELSE IsHundredths(out.final_weighted_average,
                                ClaimedNum(p, 1) * ClaimedDen(p, 2)
                                    + 3 * ClaimedNum(p, 2) * ClaimedDen(p, 1),
                                ClaimedDen(p, 1) * ClaimedDen(p, 2) * ClaimedWeightSum(p))

\* Project 1 was computed with judge 3 holding the stored weight 3.0 and
\* judge 4 the default 1.0 on criterion 1 with different scores, so that the
\* weighted average differs from the raw one.
C25_Witness ==
    /\ last.op = "calculate_for_project"
    /\ last.project = 1
    /\ StoredWeight(1, 3) = 300
    /\ ConfirmedOn(1, 1, 3) # {}
    /\ ConfirmedOn(1, 1, 4) # {}
    /\ 1 \in DOMAIN last.out.value.criteria_details
    /\ last.out.value.criteria_details[1].weighted_average
           # last.out.value.criteria_details[1].raw_average

\* Project 1 was computed with judge weights that sum to zero on criterion 3,
\* whose average is the plain mean, and with criterion weights that sum to
\* zero.
C25_WitnessZeroWeights ==
    /\ last.op = "calculate_for_project"
    /\ last.project = 1
    /\ StoredWeight(1, 3) = 0
    /\ {e.criteria : e \in {x \in evaluations : x.is_confirmed}} = {3}
    /\ last.out.value.criteria_details[3].weighted_average > 0
    /\ last.out.value.final_weighted_average = 0

\* C26: every judge weight that calculate_for_project can use is in
\* [0.1, 3.0]: calculate_judge_weight returns a weight in that range, every
\* stored JudgeWeight is in it, and JudgeWeightSerializer refuses a weight
\* outside it, 0 included.
C26_JudgeWeightInRange ==
    /\ last.op = "calculate_judge_weight" => last.weight \in 10 .. 300
    /\ \A k \in DOMAIN jweights : jweights[k] \in 10 .. 300
    /\ (last.op = "save_judge_weight" /\ last.weight \notin 10 .. 300)
           => last.error # ""

\* C27: after invalidate_cache(event_id) nothing cached for that event is
\* left: no entry of the cache (event summary, participant statistics of any
\* user, leaderboard of any limit) and no CachedStatistic row.
C27_InvalidateLeavesNothingCached ==
    ( /\ last.op = "invalidate_cache"
      /\ last.event # None
      /\ last.stat_type = None )
    => /\ \A k \in DOMAIN cache : k[2] # Val(last.event)
       /\ \A k \in DOMAIN cached_stats : k[1] # Val(last.event)

\* C28: process_new_evaluation_async returns 'queued' with nothing processed
\* yet; the processing of an evaluation stores the weights of the confirmed
\* referees of its event and then recomputes the summary, so that when it
\* has finished the cache holds a summary of the event computed from the
\* evaluations and the judge weights as they now are.
C28_ProcessingLeavesFreshSummary ==
    [][ /\ last'.op = "process_new_evaluation_async" =>
              /\ last'.out.status = "queued"
              /\ last'.evaluation \in threads'
              /\ UNCHANGED <<jweights, cache, cached_stats>>
        /\ ( /\ last'.op \in {"process_new_evaluation", "background_task"}
             /\ last'.evaluation \in evaluations )
           => LET event == Project(last'.evaluation.project).event
              IN  /\ <<event, 3>> \in DOMAIN jweights'
                  /\ jweights'[<<event, 3>>] \in calculate_judge_weight(evaluations, 3, event)
                  /\ <<"event_summary", event>> \in DOMAIN cache'
                  /\ cache'[<<"event_summary", event>>].project_rankings =
                         Rankings({ [ project_id |-> p.id,
                                      weighted_average |->
                                          calculate_for_project(evaluations, jweights', p)
                                              .final_weighted_average,
                                      evaluation_count |->
                                          calculate_for_project(evaluations, jweights', p)
                                              .total_evaluations ] :
                                    p \in {q \in Published(event) :
                                             \E e \in evaluations : e.project = q.id} }) ]_vars

\* C29: process_new_evaluation returns 'success' only when neither of its
\* steps failed: with an error logged by update_judge_weights or by
\* recalculate_event_statistics the status is 'error'.
C29_SuccessOnlyIfBothStepsSucceeded ==
    ( /\ last.op \in {"process_new_evaluation", "background_task"}
      /\ last.out.status = "success" )
    => last.logged = {}

\* C30: in every state a share link with max_downloads > 0 has
\* download_count <= max_downloads, downloads of one token that run at the
\* same time included; a download through a link that is not valid returns
\* 403 and leaves download_count as it was.
C30_DownloadCountWithinCap ==
    [][ /\ \A t \in DOMAIN share_links' :
              share_links'[t].max_downloads > 0 =>
                  share_links'[t].download_count <= share_links'[t].max_downloads
        /\ ( /\ last'.op = "download_shared_file"
             /\ last'.token \in DOMAIN share_links
             /\ ~is_valid(share_links[last'.token], clock) )
           => /\ last'.status = 403
              /\ UNCHANGED share_links ]_vars

====
